---- MODULE Spec2Model ----
(***************************************************************************)
(* Irrigation garden simulator: the episode runner (GardenSimulation),     *)
(* the moisture step and weather evolution (simulation.ts), the metrics    *)
(* (metrics.ts) and the composite irrigation policy                        *)
(* (SmartIrrigationController with its fuzzy evaluator and predictor).     *)
(*                                                                         *)
(* Real numbers of the program are kept in fixed point with three          *)
(* decimals: the integer 1000 stands for 1.0 (moisture, rates, risks,      *)
(* weather fractions, weights); temperature is in thousandths of a degree. *)
(* Products of two fixed-point numbers are divided by Scale, truncating.   *)
(***************************************************************************)
EXTENDS Integers, Sequences, FiniteSets, TLC

(* ------------------------------------------------------------------ *)
(* Bounds of the model                                                  *)
(* ------------------------------------------------------------------ *)

\* ticks of one episode (stands for EPISODE_LENGTH of consts.ts)
EpisodeLen == 8

\* ticks the runner may be stepped past the episode end under the override flag
MaxOverrun == 4

\* calls of ManualIrrigationController.setIrrigation in one behaviour
MaxManualCalls == 2

(* ------------------------------------------------------------------ *)
(* Fixed point helpers                                                  *)
(* ------------------------------------------------------------------ *)

Scale == 1000

Max2(a, b) == IF a >= b THEN a ELSE b

Min2(a, b) == IF a <= b THEN a ELSE b

Abs(a) == IF a < 0 THEN 0 - a ELSE a

\* integer division truncating toward zero, as a float product rounded to the grid
DivT(a, b) == IF a >= 0 THEN a \div b ELSE 0 - ((0 - a) \div b)

\* product of two fixed-point numbers
Mul(a, b) == DivT(a * b, Scale)

(* ------------------------------------------------------------------ *)
(* mulberry32 (utils.ts): 32-bit words as <<high 16 bits, low 16 bits>> *)
(* ------------------------------------------------------------------ *)

W16 == 65536

RECURSIVE XorN(_, _, _)
XorN(x, y, n) ==
    IF n = 0 THEN 0
    ELSE (((x % 2) + (y % 2)) % 2) + 2 * XorN(x \div 2, y \div 2, n - 1)

RECURSIVE OrN(_, _, _)
OrN(x, y, n) ==
    IF n = 0 THEN 0
    ELSE (IF x % 2 = 1 \/ y % 2 = 1 THEN 1 ELSE 0) + 2 * OrN(x \div 2, y \div 2, n - 1)

RECURSIVE Pow2(_)
Pow2(k) == IF k = 0 THEN 1 ELSE 2 * Pow2(k - 1)

Xor32(a, b) == <<XorN(a[1], b[1], 16), XorN(a[2], b[2], 16)>>

\* a | k for a small constant k (fits the low half)
Or32(a, k) == <<a[1], OrN(a[2], k, 16)>>

\* a >>> k for 0 < k < 16
Shr32(a, k) ==
    <<a[1] \div Pow2(k), (a[2] \div Pow2(k)) + ((a[1] % Pow2(k)) * Pow2(16 - k))>>

Add32(a, b) ==
    LET lo == a[2] + b[2]
    IN  <<(a[1] + b[1] + (lo \div W16)) % W16, lo % W16>>

\* (x * y) mod 2^16 without leaving 31 bits
MulMod16(x, y) == ((x * (y % 256)) + (((x * (y \div 256)) % 256) * 256)) % W16

\* Math.imul: the low 32 bits of the product
Imul32(a, b) ==
    LET a0 == a[2] % 256
        a1 == a[2] \div 256
        b0 == b[2] % 256
        b1 == b[2] \div 256
        p0 == a0 * b0
        p1 == (a1 * b0) + (a0 * b1)
        p2 == a1 * b1
        low == p0 + ((p1 % 256) * 256)
        hiOfLow == p2 + (p1 \div 256) + (low \div W16)
    IN  <<(hiOfLow + MulMod16(a[1], b[2]) + MulMod16(a[2], b[1])) % W16, low % W16>>

\* first value drawn from mulberry32(seed), as the 32-bit numerator of rand()
mulberry32(seed) ==
    LET t0 == Add32(<<0, seed>>, <<27947, 31221>>)      \* seed += 0x6d2b79f5
        t1 == Imul32(Xor32(t0, Shr32(t0, 15)), Or32(t0, 1))
        t2 == Xor32(t1, Add32(t1, Imul32(Xor32(t1, Shr32(t1, 7)), Or32(t1, 61))))
    IN  Xor32(t2, Shr32(t2, 14))

\* rand() < 0.01, i.e. numerator <= floor(0.01 * 2^32) = 655 * 65536 + 23592
RandBelowOnePercent(seed) ==
    LET u == mulberry32(seed)
    IN  u[1] < 655 \/ (u[1] = 655 /\ u[2] <= 23592)

(* ------------------------------------------------------------------ *)
(* consts.ts                                                            *)
(* ------------------------------------------------------------------ *)

IDEAL_MIN_MOISTURE == 100

IDEAL_MAX_MOISTURE == 1000

TICKS_PER_DAY == 100

WATER_USAGE_PER_TICK == 1000

FORECAST_TICK_WINDOW == 10

(* ------------------------------------------------------------------ *)
(* Weather evolution (simulation.ts)                                    *)
(* ------------------------------------------------------------------ *)

\* max(0, sin(2*pi*k/100)) for k = 0..99, three decimals
SinTable ==
    <<0, 63, 125, 187, 249, 309, 368, 426, 482, 536,
      588, 637, 685, 729, 771, 809, 844, 876, 905, 930,
      951, 969, 982, 992, 998, 1000, 998, 992, 982, 969,
      951, 930, 905, 876, 844, 809, 771, 729, 685, 637,
      588, 536, 482, 426, 368, 309, 249, 187, 125, 63,
      0, 0, 0, 0, 0, 0, 0, 0, 0, 0,
      0, 0, 0, 0, 0, 0, 0, 0, 0, 0,
      0, 0, 0, 0, 0, 0, 0, 0, 0, 0,
      0, 0, 0, 0, 0, 0, 0, 0, 0, 0,
      0, 0, 0, 0, 0, 0, 0, 0, 0, 0>>

\* the gardens of the model are seeded 33 and 42: mulberry32(35) is the one
\* draw below that starts a rain event
RainDrawTable ==
    [n \in 0 .. (50 + EpisodeLen + MaxOverrun + FORECAST_TICK_WINDOW) |->
        RandBelowOnePercent(n)]

evolveWeather(seed, prev, tick) ==
    LET sunIntensity == SinTable[(tick % TICKS_PER_DAY) + 1]
        randomRain == IF RainDrawTable[seed + tick]
                      THEN 500
                      ELSE Max2(0, prev.rainIntensity - 50)
    IN  [temperature |-> 20000 + 10 * sunIntensity,
         humidity |-> 400 + DivT(300 * (Scale - sunIntensity), Scale),
         sunIntensity |-> sunIntensity,
         rainIntensity |-> randomRain]

(* ------------------------------------------------------------------ *)
(* Gardens (types.ts): positions are <<x, y>>, tiles a function of them  *)
(* ------------------------------------------------------------------ *)

Positions(width, height) == (0 .. (width - 1)) \X (0 .. (height - 1))

\* a garden as generateGarden returns it (moisture 0, no hoses yet)
MkGarden(width, height, types, plants, seed) ==
    [width |-> width,
     height |-> height,
     tiles |-> [p \in Positions(width, height) |->
                  [type |-> types[p[2] + 1][p[1] + 1],
                   hasPlant |-> p \in plants,
                   moisture |-> 0]],
     hoses |-> <<>>,
     seed |-> seed]

InBounds(garden, p) ==
    p[1] >= 0 /\ p[1] < garden.width /\ p[2] >= 0 /\ p[2] < garden.height

Manhattan(p, q) == Abs(p[1] - q[1]) + Abs(p[2] - q[2])

\* all positions any hose path lists
HoseTiles(garden) ==
    UNION {{garden.hoses[i][j] : j \in 1 .. Len(garden.hoses[i])} :
              i \in 1 .. Len(garden.hoses)}

SoilTiles(garden) == {p \in DOMAIN garden.tiles : garden.tiles[p].type = "soil"}

PlantTiles(garden) == {p \in DOMAIN garden.tiles : garden.tiles[p].hasPlant}

\* the moisture grid of a garden
MoistureOf(garden) == [p \in DOMAIN garden.tiles |-> garden.tiles[p].moisture]

RECURSIVE SumOver(_, _)
SumOver(f, S) ==
    IF S = {} THEN 0
    ELSE LET p == CHOOSE q \in S : TRUE
         IN  f[p] + SumOver(f, S \ {p})

(* ------------------------------------------------------------------ *)
(* stepGardenMoisture (simulation.ts), phase by phase                   *)
(* ------------------------------------------------------------------ *)

\* hoseMask: in-bounds hose positions that are not pillars
HoseMask(garden) ==
    {p \in HoseTiles(garden) :
        InBounds(garden, p) /\ garden.tiles[p].type # "pillar"}

\* 1a. irrigation adds water on the soil tiles of the hose mask
IrrigationPhase(garden, config, irrigationOn, m) ==
    [p \in DOMAIN m |->
        IF irrigationOn /\ p \in HoseMask(garden) /\ garden.tiles[p].type = "soil"
        THEN m[p] + config.irrigationRate
        ELSE m[p]]

\* 1b. rain adds moisture on every soil tile
RainPhase(garden, config, weather, m) ==
    [p \in DOMAIN m |->
        IF weather.rainIntensity > 0 /\ garden.tiles[p].type = "soil"
        THEN m[p] + Mul(config.rainToMoisture, weather.rainIntensity)
        ELSE m[p]]

ClimateFactor(weather) ==
    Scale + DivT(weather.sunIntensity, 2)
          + DivT(weather.temperature - 20000, 50)
          - DivT(weather.humidity, 2)

EvaporationRate(config, weather) ==
    Max2(0, Mul(config.baseEvaporationRate, ClimateFactor(weather)))

\* 2. evaporation on every soil tile
EvaporationPhase(garden, config, weather, m) ==
    [p \in DOMAIN m |->
        IF garden.tiles[p].type = "soil"
        THEN m[p] - EvaporationRate(config, weather)
        ELSE m[p]]

\* the exchange of a soil tile with its right or down soil neighbour
DiffusionDelta(garden, config, m, p, n) ==
    IF /\ garden.tiles[p].type = "soil"
       /\ InBounds(garden, n)
       /\ garden.tiles[n].type = "soil"
    THEN Mul(config.diffusionRate, m[p] - m[n])
    ELSE 0

\* diffusion that takes from the wetter tile and gives nothing to the drier
DiffusionPhase_OneSided(g, config, m) ==
    [p \in DOMAIN m |->
        m[p] - DiffusionDelta(g, config, m, p, <<p[1] + 1, p[2]>>)
             - DiffusionDelta(g, config, m, p, <<p[1], p[2] + 1>>)]

\* 3. lateral diffusion: all deltas from the pre-diffusion grid, applied together
DiffusionPhase(garden, config, m) ==
    [p \in DOMAIN m |->
        m[p] - DiffusionDelta(garden, config, m, p, <<p[1] + 1, p[2]>>)
             - DiffusionDelta(garden, config, m, p, <<p[1], p[2] + 1>>)
             + (IF InBounds(garden, <<p[1] - 1, p[2]>>)
                THEN DiffusionDelta(garden, config, m, <<p[1] - 1, p[2]>>, p)
                ELSE 0)
             + (IF InBounds(garden, <<p[1], p[2] - 1>>)
                THEN DiffusionDelta(garden, config, m, <<p[1], p[2] - 1>>, p)
                ELSE 0)]

\* the clamp with its ceiling lost
Clamp_NoCeiling(config, x) == Max2(0, x)

Clamp(config, x) == Max2(0, Min2(config.maxMoisture, x))

\* 4. clamp soil tiles, leave the other tiles as they were
ClampPhase(garden, config, m) ==
    [p \in DOMAIN m |->
        IF garden.tiles[p].type = "soil"
        THEN [garden.tiles[p] EXCEPT !.moisture = Clamp(config, m[p])]
        ELSE garden.tiles[p]]

stepGardenMoisture(garden, config, weather, irrigationOn) ==
    LET m0 == MoistureOf(garden)
        m1 == IrrigationPhase(garden, config, irrigationOn, m0)
        m2 == RainPhase(garden, config, weather, m1)
        m3 == EvaporationPhase(garden, config, weather, m2)
        m4 == DiffusionPhase(garden, config, m3)
    IN  [garden EXCEPT !.tiles = ClampPhase(garden, config, m4)]

(* ------------------------------------------------------------------ *)
(* computeGardenMetrics (metrics.ts)                                    *)
(* ------------------------------------------------------------------ *)

\* Math.round(count / total * 100)
RoundPercent(count, total) == ((200 * count) + total) \div (2 * total)

RECURSIVE MinOver(_, _)
MinOver(f, S) ==
    LET p == CHOOSE q \in S : TRUE
    IN  IF S = {p} THEN f[p] ELSE Min2(f[p], MinOver(f, S \ {p}))

RECURSIVE MaxOver(_, _)
MaxOver(f, S) ==
    LET p == CHOOSE q \in S : TRUE
    IN  IF S = {p} THEN f[p] ELSE Max2(f[p], MaxOver(f, S \ {p}))

computeGardenMetrics(state, garden) ==
    LET plantTiles == PlantTiles(garden)
        m == MoistureOf(garden)
        totalPlants == Cardinality(plantTiles)
        dryCount == Cardinality({p \in plantTiles : m[p] < IDEAL_MIN_MOISTURE})
        wetCount == Cardinality({p \in plantTiles : m[p] > IDEAL_MAX_MOISTURE})
    IN  [avgMoisture |-> IF totalPlants > 0
                         THEN DivT(SumOver(m, plantTiles), totalPlants) ELSE 0,
         minMoisture |-> IF totalPlants > 0 THEN MinOver(m, plantTiles) ELSE 0,
         maxMoisture |-> IF totalPlants > 0 THEN MaxOver(m, plantTiles) ELSE 0,
         percentTooDry |-> IF totalPlants > 0
                           THEN RoundPercent(dryCount, totalPlants) ELSE 0,
         percentTooWet |-> IF totalPlants > 0
                           THEN RoundPercent(wetCount, totalPlants) ELSE 0,
         irrigationOn |-> state.irrigationOn,
         ticksSinceLastIrrigation |->
             IF state.irrigationOn THEN 0
             ELSE state.tick - state.lastIrrigationTick,
         timeOfDay |-> DivT((state.tick % TICKS_PER_DAY) * Scale, TICKS_PER_DAY),
         episodeProgress |->
             IF state.episodeLength > 0
             THEN Min2(DivT(state.tick * Scale, state.episodeLength), Scale)
             ELSE 0,
         waterUsedThisTick |-> state.waterUsedThisTick,
         cumulativeWaterUsed |-> state.cumulativeWaterUsed]

(* ------------------------------------------------------------------ *)
(* FuzzyClimateEvaluator                                                *)
(* ------------------------------------------------------------------ *)

clamp01(x) == Max2(0, Min2(Scale, x))

\* triangular membership function
tri(x, a, b, c) ==
    IF x <= a \/ x >= c THEN 0
    ELSE IF x = b THEN Scale
    ELSE IF x < b THEN DivT((x - a) * Scale, b - a)
    ELSE DivT((c - x) * Scale, c - b)

RECURSIVE MaxOfSeq(_)
MaxOfSeq(q) == IF q = <<>> THEN 0 ELSE Max2(clamp01(Head(q)), MaxOfSeq(Tail(q)))

Max3(a, b, c) == Max2(a, Max2(b, c))

Min3(a, b, c) == Min2(a, Min2(b, c))

FuzzyEvaluate(metrics, weather, forecast) ==
    LET tempNorm == clamp01(DivT(weather.temperature, 40))
        humNorm == clamp01(weather.humidity)
        sunNorm == clamp01(weather.sunIntensity)
        rainNow == clamp01(weather.rainIntensity)
        forecastRainSoon == clamp01(MaxOfSeq(forecast))
        tempHigh == tri(tempNorm, 500, 800, 1000)
        tempLow == tri(tempNorm, 0, 200, 400)
        tempMed == tri(tempNorm, 300, 500, 700)
        humLow == tri(Scale - humNorm, 300, 700, 1000)
        humHigh == tri(humNorm, 500, 800, 1000)
        sunHigh == tri(sunNorm, 500, 800, 1000)
        sunLow == tri(sunNorm, 0, 200, 400)
        sunMed == tri(sunNorm, 300, 500, 700)
        rainNowHigh == tri(rainNow, 300, 700, 1000)
        rainSoonHigh == tri(forecastRainSoon, 300, 700, 1000)
        percentTooDry == clamp01(metrics.percentTooDry * 10)
        percentTooWet == clamp01(metrics.percentTooWet * 10)
        ruleDry1 == Min3(tempHigh, sunHigh, humLow)
        noRainSoon == clamp01(Scale - Max2(rainNowHigh, rainSoonHigh))
        ruleDry2 == Min2(percentTooDry, noRainSoon)
        ruleDry3 == Min2(tempMed, sunMed)
        ruleFlood1 == Max2(percentTooWet, rainNowHigh)
        alreadyWet == tri(percentTooWet, 100, 300, 800)
        ruleFlood2 == Min2(alreadyWet, rainSoonHigh)
        ruleFlood3 == Min3(tempLow, sunLow, humHigh)
    IN  [drynessRisk |-> clamp01(Max3(ruleDry1, ruleDry2, ruleDry3)),
         floodRisk |-> clamp01(Max3(ruleFlood1, ruleFlood2, ruleFlood3))]

(* ------------------------------------------------------------------ *)
(* HumidityPredictorNN.forward: the closed-form dryness prediction      *)
(* ------------------------------------------------------------------ *)

predictFutureDryness(metrics, weather, irrigationFlag) ==
    LET currentDry == metrics.percentTooDry * 10
        tempNorm == clamp01(DivT(weather.temperature, 40))
        evaporationFactor ==
            Mul(Mul(tempNorm, weather.sunIntensity), Scale - weather.humidity)
        afterAction == IF irrigationFlag = 1
                       THEN Mul(currentDry, 400)
                       ELSE currentDry + Mul(evaporationFactor, 150)
        afterRain == afterAction - Mul(weather.rainIntensity, 250)
        currentWet == metrics.percentTooWet * 10
    IN  clamp01(afterRain - Mul(currentWet, 100))

(* ------------------------------------------------------------------ *)
(* SmartIrrigationController.decide                                     *)
(* ------------------------------------------------------------------ *)

DEFAULT_CONTROLLER_PARAMS ==
    [drynessWeight |-> 1500, floodWeight |-> 1000, waterWeight |-> 300,
     predictionHorizonTicks |-> 10, fuzzyDrynessScale |-> 500,
     fuzzyFloodScale |-> 400, minTicksBetweenToggles |-> 3,
     maxDutyCycle |-> 600]

\* dutyCycle > maxDutyCycle, with dutyCycle = onTicks / max(1, tick) or 0
HardWaterCapReached(params, state) ==
    IF state.irrigationOnTicks > 0
    THEN state.irrigationOnTicks * Scale > params.maxDutyCycle * Max2(1, state.tick)
    ELSE 0 > params.maxDutyCycle

\* the hysteresis branch with the rule of the off case used in both cases
HysteresisDecision_OffRuleOnly(state, risks, futureDryOff) ==
    risks.drynessRisk > 900 \/ futureDryOff > 900

\* the hysteresis branch: keep the current flag unless an extreme condition holds
HysteresisDecision(state, risks, futureDryOff) ==
    IF state.irrigationOn
    THEN ~(risks.floodRisk > 600)
    ELSE risks.drynessRisk > 900 \/ futureDryOff > 900

\* decide without the override of a very high flood risk
SmartDecide_NoFloodOverride(params, metrics, state) ==
    LET ticksSinceLast == metrics.ticksSinceLastIrrigation
        hardWaterCapReached == HardWaterCapReached(params, state)
        risks == FuzzyEvaluate(metrics, state.weather, state.forecast)
        futureDryOff == predictFutureDryness(metrics, state.weather, 0)
        futureDryOn == predictFutureDryness(metrics, state.weather, 1)
        floodCost == Mul(params.floodWeight,
                         Mul(risks.floodRisk, params.fuzzyFloodScale))
        costOff == Mul(params.drynessWeight, futureDryOff) + floodCost
        costOn == Mul(params.drynessWeight, futureDryOn) + floodCost
                    + params.waterWeight
        wantIrrigationOn ==
            /\ costOn < costOff
            /\ ~(hardWaterCapReached /\ risks.drynessRisk < 900
                                     /\ futureDryOff < 900)
    IN  IF ticksSinceLast < params.minTicksBetweenToggles
        THEN HysteresisDecision(state, risks, futureDryOff)
        ELSE wantIrrigationOn

SmartDecide(params, metrics, state) ==
    LET ticksSinceLast == metrics.ticksSinceLastIrrigation
        hardWaterCapReached == HardWaterCapReached(params, state)
        risks == FuzzyEvaluate(metrics, state.weather, state.forecast)
        futureDryOff == predictFutureDryness(metrics, state.weather, 0)
        futureDryOn == predictFutureDryness(metrics, state.weather, 1)
        floodCost == Mul(params.floodWeight,
                         Mul(risks.floodRisk, params.fuzzyFloodScale))
        costOff == Mul(params.drynessWeight, futureDryOff) + floodCost
        costOn == Mul(params.drynessWeight, futureDryOn) + floodCost
                    + params.waterWeight
        wantIrrigationOn ==
            /\ costOn < costOff
            /\ ~(risks.floodRisk > 700)
            /\ ~(hardWaterCapReached /\ risks.drynessRisk < 900
                                     /\ futureDryOff < 900)
    IN  IF ticksSinceLast < params.minTicksBetweenToggles
        THEN HysteresisDecision(state, risks, futureDryOff)
        ELSE wantIrrigationOn

(* ------------------------------------------------------------------ *)
(* The other controllers                                                *)
(* ------------------------------------------------------------------ *)

\* DumbIrrigationController.decide with moistureHigh = 1
DumbDecide(metrics) ==
    IF metrics.percentTooWet > 5 THEN FALSE
    ELSE metrics.percentTooDry > 15 /\ metrics.avgMoisture < 1000

\* the always-on policy answering as the default policy of the runner does
Decide_OnAnswersOff(c, metrics, st) ==
    CASE c.kind \in {"default", "alwaysOn", "alwaysOff"} -> FALSE
      [] c.kind = "dumb" -> DumbDecide(metrics)
      [] c.kind = "manual" -> c.irrigationEnabled
      [] c.kind = "smart" -> SmartDecide(c.params, metrics, st)

\* controller.decide(metrics, state) for the controller the runner holds
Decide(controller, metrics, state) ==
    CASE controller.kind = "default" -> FALSE
      [] controller.kind = "alwaysOn" -> TRUE
      [] controller.kind = "alwaysOff" -> FALSE
      [] controller.kind = "dumb" -> DumbDecide(metrics)
      [] controller.kind = "manual" -> controller.irrigationEnabled
      [] controller.kind = "smart" -> SmartDecide(controller.params, metrics, state)

(* ------------------------------------------------------------------ *)
(* Gardens, configurations and controllers the runner is built with     *)
(* ------------------------------------------------------------------ *)

\* W . s P : the hose runs from the soil tile next to the plant to the source
GardenStrip(seed) ==
    [MkGarden(4, 1, <<<<"water_source", "path", "soil", "soil">>>>,
              {<<3, 0>>}, seed)
       EXCEPT !.hoses = <<<< <<2, 0>>, <<1, 0>>, <<0, 0>> >>>>]

\* W . P s P : the second hose crosses the first plant's tile
GardenRow(seed) ==
    [MkGarden(5, 1, <<<<"water_source", "path", "soil", "soil", "soil">>>>,
              {<<2, 0>>, <<4, 0>>}, seed)
       EXCEPT !.hoses = << << <<1, 0>>, <<0, 0>> >>,
                           << <<3, 0>>, <<2, 0>>, <<1, 0>> >> >>]

\* W . P / P s # : one plant next to the source, one reached along the path
GardenBlock(seed) ==
    [MkGarden(3, 2, <<<<"water_source", "path", "soil">>,
                      <<"soil", "soil", "pillar">>>>,
              {<<2, 0>>, <<0, 1>>}, seed)
       EXCEPT !.hoses = <<<< <<1, 0>>, <<0, 0>> >>>>]

\* a garden without plants: the planner lays no hose
GardenBare(seed) ==
    MkGarden(2, 1, <<<<"water_source", "soil">>>>, {}, seed)

Gardens ==
    {GardenStrip(42), GardenRow(33), GardenRow(42), GardenBlock(42),
     GardenBare(33)}

\* options.simConfig with nothing overridden
DefaultSimConfig ==
    [irrigationRate |-> 50, baseEvaporationRate |-> 10, diffusionRate |-> 150,
     rainToMoisture |-> 100, maxMoisture |-> 2000]

\* options.simConfig of a soil that reacts fast and saturates early
FastSimConfig ==
    [irrigationRate |-> 1000, baseEvaporationRate |-> 200, diffusionRate |-> 400,
     rainToMoisture |-> 100, maxMoisture |-> 1010]

SimConfigs == {DefaultSimConfig, FastSimConfig}

SmartParams ==
    {DEFAULT_CONTROLLER_PARAMS,
     [DEFAULT_CONTROLLER_PARAMS EXCEPT !.waterWeight = 0,
                                       !.minTicksBetweenToggles = 5,
                                       !.maxDutyCycle = 1000]}

Controllers ==
    {[kind |-> k, params |-> DEFAULT_CONTROLLER_PARAMS, irrigationEnabled |-> FALSE] :
        k \in {"default", "alwaysOn", "alwaysOff", "dumb", "manual"}}
    \cup {[kind |-> "smart", params |-> ps, irrigationEnabled |-> FALSE] :
             ps \in SmartParams}

\* GardenSimulationOptions, the generated and planned garden standing for
\* width, height, densities and seed
Options ==
    {[garden |-> GardenStrip(42), coverageRadius |-> 1, simConfig |-> DefaultSimConfig],
     [garden |-> GardenStrip(42), coverageRadius |-> 1, simConfig |-> FastSimConfig],
     [garden |-> GardenRow(33), coverageRadius |-> 1, simConfig |-> DefaultSimConfig],
     [garden |-> GardenRow(42), coverageRadius |-> 1, simConfig |-> FastSimConfig],
     [garden |-> GardenBlock(42), coverageRadius |-> 1, simConfig |-> FastSimConfig],
     [garden |-> GardenBare(33), coverageRadius |-> 1, simConfig |-> DefaultSimConfig]}

(* ------------------------------------------------------------------ *)
(* GardenSimulation                                                     *)
(* ------------------------------------------------------------------ *)

VARIABLES
    garden,              \* this.garden
    state,               \* this.state
    overrideEpisodeEnd,  \* this.overrideEpisodeEnd
    controller,          \* this.controller
    lastChange,          \* history: the tick of the last step that changed
                         \* the irrigation flag, -1 before the first change
    manualCalls,         \* how often setIrrigation has been called
    twin,                \* a second runner built from the same options
    call,                \* a direct call of SmartIrrigationController.decide
    search,              \* a call of aStar: its arguments, locals and return value
    planner,             \* a call of planHoses: its arguments, locals and return value
    trainer              \* a GeneticAlgorithmTrainer and its call of train()

vars ==
    <<garden, state, overrideEpisodeEnd, controller, lastChange, manualCalls, twin,
      call, search, planner, trainer>>

\* the calls the runner takes no part in
calls == <<call, search, planner, trainer>>

runner == <<garden, state, overrideEpisodeEnd, controller, lastChange, manualCalls>>

createDefaultState(options) ==
    [tick |-> 0,
     isRunning |-> FALSE,
     irrigationOn |-> TRUE,
     weather |-> [temperature |-> 25000, humidity |-> 500,
                  sunIntensity |-> 800, rainIntensity |-> 0],
     config |-> [irrigationRate |-> options.simConfig.irrigationRate,
                 baseEvaporationRate |-> options.simConfig.baseEvaporationRate,
                 diffusionRate |-> options.simConfig.diffusionRate,
                 rainToMoisture |-> options.simConfig.rainToMoisture,
                 maxMoisture |-> options.simConfig.maxMoisture,
                 coverageRadius |-> options.coverageRadius],
     episodeLength |-> EpisodeLen,
     forecast |-> [k \in 1 .. FORECAST_TICK_WINDOW |-> 0],
     waterUsedThisTick |-> 0,
     lastIrrigationTick |-> 0,
     cumulativeWaterUsed |-> 0,
     irrigationToggleCount |-> 0,
     irrigationOnTicks |-> 0,
     dryPlantTicks |-> 0,
     floodedPlantTicks |-> 0,
     healthyPlantTicks |-> 0,
     peakSimultaneousFloodedPlants |-> 0,
     peakSimultaneousDryPlants |-> 0,
     results |-> <<>>]

\* the count over all tiles, as the metrics hook takes it
countPlants_AllTiles(g) == Cardinality(DOMAIN g.tiles)

countPlants(g) == Cardinality(PlantTiles(g))

\* the keys computeWaterUsedThisTick marks: around every hose position, the
\* offsets of the diamond that land in bounds on a soil tile
\* the covered tiles without the soil test
MarkedTiles_AnyType(g, coverageRadius) ==
    LET offsets == {d \in ((0 - coverageRadius) .. coverageRadius)
                            \X ((0 - coverageRadius) .. coverageRadius) :
                        ~(Abs(d[1]) + Abs(d[2]) > coverageRadius)}
        around(p) == {<<p[1] + d[1], p[2] + d[2]>> : d \in offsets}
    IN  {n \in UNION {around(p) : p \in HoseTiles(g)} : InBounds(g, n)}

MarkedTiles(g, coverageRadius) ==
    LET offsets == {d \in ((0 - coverageRadius) .. coverageRadius)
                            \X ((0 - coverageRadius) .. coverageRadius) :
                        ~(Abs(d[1]) + Abs(d[2]) > coverageRadius)}
        around(p) == {<<p[1] + d[1], p[2] + d[2]>> : d \in offsets}
    IN  {n \in UNION {around(p) : p \in HoseTiles(g)} :
            InBounds(g, n) /\ g.tiles[n].type = "soil"}

computeWaterUsedThisTick(g, st) ==
    IF ~st.irrigationOn THEN 0
    ELSE Cardinality(MarkedTiles(g, st.config.coverageRadius))
            * st.config.irrigationRate

updatePlantAccumulators(g, st) ==
    LET m == MoistureOf(g)
        dryPlants == Cardinality({p \in PlantTiles(g) : m[p] < IDEAL_MIN_MOISTURE})
        floodedPlants ==
            Cardinality({p \in PlantTiles(g) :
                            ~(m[p] < IDEAL_MIN_MOISTURE) /\ m[p] > IDEAL_MAX_MOISTURE})
        healthyPlants == countPlants(g) - dryPlants - floodedPlants
    IN  [st EXCEPT
            !.dryPlantTicks = @ + dryPlants,
            !.floodedPlantTicks = @ + floodedPlants,
            !.healthyPlantTicks = @ + healthyPlants,
            !.peakSimultaneousDryPlants = Max2(@, dryPlants),
            !.peakSimultaneousFloodedPlants = Max2(@, floodedPlants)]

RECURSIVE ForecastFrom(_, _, _, _)
ForecastFrom(seed, tempWeather, tick, n) ==
    IF n = 0 THEN <<>>
    ELSE LET w == evolveWeather(seed, tempWeather, tick)
         IN  <<w.rainIntensity>> \o ForecastFrom(seed, w, tick + 1, n - 1)

generateForecast(g, st) ==
    ForecastFrom(g.seed, st.weather, st.tick, FORECAST_TICK_WINDOW)

\* the rounded score without the clamp to [0, 100]
FinalScore_Unclamped(st, totalPlantTicks) ==
    IF totalPlantTicks > 0
    THEN LET waterCap == WATER_USAGE_PER_TICK * totalPlantTicks
             waterSaved == waterCap - Min2(waterCap, st.cumulativeWaterUsed)
             num == (Scale * ((60 * st.healthyPlantTicks)
                              + (20 * (totalPlantTicks - st.dryPlantTicks))
                              + (10 * (totalPlantTicks - st.floodedPlantTicks))))
                    + (10 * waterSaved)
             den == Scale * totalPlantTicks
         IN  ((2 * num) + den) \div (2 * den)
    ELSE 0

\* Math.round(rawScore * 100) clamped to [0, 100], from exact fractions
FinalScore(st, totalPlantTicks) ==
    IF totalPlantTicks > 0
    THEN LET waterCap == WATER_USAGE_PER_TICK * totalPlantTicks
             waterSaved == waterCap - Min2(waterCap, st.cumulativeWaterUsed)
             num == (Scale * ((60 * st.healthyPlantTicks)
                              + (20 * (totalPlantTicks - st.dryPlantTicks))
                              + (10 * (totalPlantTicks - st.floodedPlantTicks))))
                    + (10 * waterSaved)
             den == Scale * totalPlantTicks
             rounded == ((2 * num) + den) \div (2 * den)   \* floor(x + 0.5)
         IN  Max2(0, Min2(100, rounded))
    ELSE 0

Results(g, st) ==
    LET tickCount == Min2(st.tick, st.episodeLength)
        totalPlantTicks == countPlants(g) * tickCount
    IN  [totalWaterUsed |-> st.cumulativeWaterUsed,
         dryPlantTicks |-> st.dryPlantTicks,
         floodedPlantTicks |-> st.floodedPlantTicks,
         healthyPlantTicks |-> st.healthyPlantTicks,
         peakSimultaneousFloodedPlants |-> st.peakSimultaneousFloodedPlants,
         peakSimultaneousDryPlants |-> st.peakSimultaneousDryPlants,
         tickCount |-> tickCount,
         finalScore |-> FinalScore(st, totalPlantTicks),
         totalPlantTicks |-> totalPlantTicks,
         irrigationToggleCount |-> st.irrigationToggleCount,
         irrigationOnTicks |-> st.irrigationOnTicks]

\* compileResults(): the state with state.results stored
compileResults(g, st) == [st EXCEPT !.results = <<Results(g, st)>>]

\* the finished step with the weather still evolving
StepFinished_WeatherMoves(g, st) ==
    [garden |-> g,
     state |-> [compileResults(g, st) EXCEPT
                   !.isRunning = FALSE,
                   !.weather = evolveWeather(g.seed, st.weather, st.tick)]]

\* step(), episode finished: produce final results and stop
StepFinished(g, st) ==
    [garden |-> g,
     state |-> [compileResults(g, st) EXCEPT !.isRunning = FALSE]]

\* the bookkeeping with lastIrrigationTick recorded on every change
TrackToggles_AnyChange(st, on) ==
    LET prevIrrigationOn == st.irrigationOn
    IN  [st EXCEPT
           !.irrigationOn = on,
           !.irrigationToggleCount = IF on # prevIrrigationOn THEN @ + 1 ELSE @,
           !.lastIrrigationTick = IF on # prevIrrigationOn THEN st.tick ELSE @,
           !.irrigationOnTicks = IF on THEN @ + 1 ELSE @]

\* step(): track irrigation toggles and time spent on
TrackToggles(st, on) ==
    LET prevIrrigationOn == st.irrigationOn
    IN  [st EXCEPT
           !.irrigationOn = on,
           !.irrigationToggleCount = IF on # prevIrrigationOn THEN @ + 1 ELSE @,
           !.lastIrrigationTick =
               IF on # prevIrrigationOn /\ on THEN st.tick ELSE @,
           !.irrigationOnTicks = IF on THEN @ + 1 ELSE @]

\* step(): compute water used this tick and update totals
AccumulateWater(g, st) ==
    LET waterUsedThisTick == computeWaterUsedThisTick(g, st)
    IN  [st EXCEPT !.waterUsedThisTick = waterUsedThisTick,
                   !.cumulativeWaterUsed = @ + waterUsedThisTick]

\* step(): the forecast and the tick counter, its last statements
AdvanceTick(g, st) ==
    [garden |-> g,
     state |-> [st EXCEPT !.forecast = generateForecast(g, st),
                          !.tick = @ + 1]]

\* step(): water totals and plant accumulators, read from the stepped garden
AccountTick(g, st) ==
    AdvanceTick(g, updatePlantAccumulators(g, AccumulateWater(g, st)))

\* step(): the garden moisture step under the weather just evolved
MoistureTick(g, st) ==
    AccountTick(stepGardenMoisture(g, st.config, st.weather, st.irrigationOn), st)

\* step(): weather evolution
WeatherTick(g, st) ==
    MoistureTick(g, [st EXCEPT !.weather =
                        evolveWeather(g.seed, st.weather, st.tick)])

\* step(): what the call leaves in this.garden and this.state
step(g, st, override, c) ==
    IF st.tick >= st.episodeLength /\ ~override
    THEN StepFinished(g, st)
    ELSE WeatherTick(g, TrackToggles(st,
                        Decide(c, computeGardenMetrics(st, g), st)))

\* regenerate that leaves the water total of the earlier run in place
regenerate_KeepsWater(self, options) ==
    [garden |-> options.garden,
     state |-> [createDefaultState(options) EXCEPT
                   !.cumulativeWaterUsed = self.state.cumulativeWaterUsed],
     overrideEpisodeEnd |-> FALSE]

\* regenerate(options): the planned garden of the options, the default
\* state and the override cleared, whatever the runner held before
regenerate(self, options) ==
    [garden |-> options.garden,
     state |-> createDefaultState(options),
     overrideEpisodeEnd |-> FALSE]

Terminal(st, override) == st.tick >= st.episodeLength /\ ~override

Init ==
    \E o \in Options, c \in Controllers :
        /\ garden = o.garden
        /\ state = createDefaultState(o)
        /\ overrideEpisodeEnd = FALSE
        /\ controller = c
        /\ lastChange = 0 - 1
        /\ manualCalls = 0
        /\ twin = <<>>
        /\ call = <<>>
        /\ search = <<>>
        /\ planner = <<>>
        /\ trainer = <<>>

\* step() while the episode runs (or runs over under the override flag)
StepTick ==
    /\ ~Terminal(state, overrideEpisodeEnd)
    /\ state.tick < state.episodeLength + MaxOverrun
    /\ \E r \in {step(garden, state, overrideEpisodeEnd, controller)} :
          /\ garden' = r.garden
          /\ state' = r.state
          /\ lastChange' = IF r.state.irrigationOn # state.irrigationOn
                           THEN state.tick ELSE lastChange
    /\ UNCHANGED <<overrideEpisodeEnd, controller, manualCalls, twin, calls>>

\* step() once the episode is over
StepTerminal ==
    /\ Terminal(state, overrideEpisodeEnd)
    /\ \E r \in {step(garden, state, overrideEpisodeEnd, controller)} :
          garden' = r.garden /\ state' = r.state
    /\ UNCHANGED <<overrideEpisodeEnd, controller, lastChange, manualCalls, twin, calls>>

\* compileResults() called from outside
CompileResults ==
    /\ state' = compileResults(garden, state)
    /\ UNCHANGED <<garden, overrideEpisodeEnd, controller, lastChange, manualCalls, twin, calls>>

\* the Play/Pause button of GardenView
PlayPause ==
    LET isCurrentlyRunning == state.isRunning
    IN  /\ overrideEpisodeEnd' =
               IF isCurrentlyRunning THEN FALSE
               ELSE IF state.tick >= state.episodeLength THEN TRUE
               ELSE overrideEpisodeEnd
        /\ state' = IF isCurrentlyRunning
                    THEN compileResults(garden, [state EXCEPT !.isRunning = FALSE])
                    ELSE [state EXCEPT !.isRunning = TRUE]
        /\ UNCHANGED <<garden, controller, lastChange, manualCalls, twin, calls>>

\* regenerate(options)
Regenerate ==
    \E o \in Options :
        \E r \in {regenerate([garden |-> garden, state |-> state,
                               overrideEpisodeEnd |-> overrideEpisodeEnd], o)} :
            /\ garden' = r.garden
            /\ state' = r.state
            /\ overrideEpisodeEnd' = r.overrideEpisodeEnd
            /\ lastChange' = 0 - 1
            /\ UNCHANGED <<controller, manualCalls, twin, calls>>

\* ManualIrrigationController.setIrrigation(enabled)
SetIrrigation ==
    /\ controller.kind = "manual"
    /\ manualCalls < MaxManualCalls
    /\ \E enabled \in BOOLEAN :
          controller' = [controller EXCEPT !.irrigationEnabled = enabled]
    /\ manualCalls' = manualCalls + 1
    /\ UNCHANGED <<garden, state, overrideEpisodeEnd, lastChange, twin, calls>>

Next ==
    \/ StepTick
    \/ StepTerminal
    \/ CompileResults
    \/ PlayPause
    \/ Regenerate
    \/ SetIrrigation

Spec == Init /\ [][Next]_vars

(* ------------------------------------------------------------------ *)
(* Two runs of the same episode                                         *)
(* ------------------------------------------------------------------ *)

\* two runners constructed from the same options with the same policy
InitTwin ==
    \E o \in Options, c \in Controllers :
        /\ garden = o.garden
        /\ state = createDefaultState(o)
        /\ overrideEpisodeEnd = FALSE
        /\ controller = c
        /\ lastChange = 0 - 1
        /\ manualCalls = 0
        /\ twin = [options |-> o, garden |-> o.garden,
                   state |-> createDefaultState(o)]
        /\ call = <<>>
        /\ search = <<>>
        /\ planner = <<>>
        /\ trainer = <<>>

\* step() of the second runner
TwinStep ==
    /\ \E r \in {step(twin.garden, twin.state, FALSE, controller)} :
          twin' = [twin EXCEPT !.garden = r.garden, !.state = r.state]
    /\ UNCHANGED <<garden, state, overrideEpisodeEnd, controller, lastChange,
                   manualCalls, calls>>

\* regenerate(options) of the first runner with the options of the episode:
\* the run starts again, after any part of an earlier run
Restart ==
    \E r \in {regenerate([garden |-> garden, state |-> state,
                           overrideEpisodeEnd |-> overrideEpisodeEnd],
                          twin.options)} :
        /\ garden' = r.garden
        /\ state' = r.state
        /\ overrideEpisodeEnd' = r.overrideEpisodeEnd
        /\ lastChange' = 0 - 1
        /\ UNCHANGED <<controller, manualCalls, twin, calls>>

NextTwin ==
    \/ StepTick
    \/ StepTerminal
    \/ Restart
    \/ TwinStep

SpecTwin == InitTwin /\ [][NextTwin]_vars

(* ------------------------------------------------------------------ *)
(* SmartIrrigationController.decide on its own                          *)
(* ------------------------------------------------------------------ *)

\* percentTooDry and percentTooWet of a garden of five plants
PlantPercents ==
    {pp \in {0, 20, 40, 60, 80, 100} \X {0, 20, 40, 60, 80, 100} :
        pp[1] + pp[2] <= 100}

\* state.weather: the default weather, a hot dry noon, a rainy night
Weathers ==
    {[temperature |-> 25000, humidity |-> 500, sunIntensity |-> 800,
      rainIntensity |-> 0],
     [temperature |-> 32000, humidity |-> 300, sunIntensity |-> 800,
      rainIntensity |-> 0],
     [temperature |-> 20000, humidity |-> 700, sunIntensity |-> 0,
      rainIntensity |-> 500]}

\* state.forecast: no rain ahead, or rain ahead
Forecasts ==
    {[k \in 1 .. FORECAST_TICK_WINDOW |-> r] : r \in {0, 500}}

\* the arguments of one call: the metrics computeGardenMetrics makes of a
\* state of the runner, with the plant percentages of a larger garden
DecideArguments ==
    {LET st == [createDefaultState([garden |-> GardenStrip(42),
                                    coverageRadius |-> 1,
                                    simConfig |-> DefaultSimConfig])
                   EXCEPT !.tick = t,
                          !.irrigationOn = on,
                          !.lastIrrigationTick = last,
                          !.irrigationOnTicks = IF allOn THEN t ELSE 0,
                          !.weather = w,
                          !.forecast = f]
     IN  [metrics |-> [computeGardenMetrics(st, GardenStrip(42))
                          EXCEPT !.percentTooDry = pp[1],
                                 !.percentTooWet = pp[2]],
          state |-> st] :
        pp \in PlantPercents, w \in Weathers, f \in Forecasts,
        on \in BOOLEAN, t \in {1, 4, EpisodeLen}, last \in {0, 1},
        allOn \in BOOLEAN}

InitDecide ==
    /\ garden = GardenStrip(42)
    /\ state = createDefaultState([garden |-> GardenStrip(42), coverageRadius |-> 1,
                                   simConfig |-> DefaultSimConfig])
    /\ overrideEpisodeEnd = FALSE
    /\ controller \in {c \in Controllers : c.kind = "smart"}
    /\ lastChange = 0 - 1
    /\ manualCalls = 0
    /\ twin = <<>>
    /\ \E a \in DecideArguments :
          call = [metrics |-> a.metrics, state |-> a.state, result |-> <<>>]
    /\ search = <<>>
    /\ planner = <<>>
    /\ trainer = <<>>

\* decide(metrics, state) of the controller, its return value kept
CallDecide ==
    /\ call' = [call EXCEPT !.result =
                    <<SmartDecide(controller.params, call.metrics, call.state)>>]
    /\ UNCHANGED <<garden, state, overrideEpisodeEnd, controller, lastChange,
                   manualCalls, twin, search, planner, trainer>>

NextDecide == CallDecide

SpecDecide == InitDecide /\ [][NextDecide]_vars

TypeOK ==
    /\ state.tick \in 0 .. (EpisodeLen + MaxOverrun)
    /\ overrideEpisodeEnd \in BOOLEAN
    /\ controller \in [kind : STRING, params : SmartParams, irrigationEnabled : BOOLEAN]

(* ------------------------------------------------------------------ *)
(* GardenGrid (grid.ts)                                                 *)
(* ------------------------------------------------------------------ *)

\* the positions in the order of the scans "for y ... for x ..."
RowMajor(g) ==
    [i \in 1 .. (g.width * g.height) |->
        <<(i - 1) % g.width, (i - 1) \div g.width>>]

findTilesByType(g, type) ==
    SelectSeq(RowMajor(g), LAMBDA p : g.tiles[p].type = type)

findPlantTiles(g) == SelectSeq(RowMajor(g), LAMBDA p : g.tiles[p].hasPlant)

findWaterSources(g) == findTilesByType(g, "water_source")

\* the deltas of neighbors4, in the order the code lists them
Deltas == << <<1, 0>>, <<0 - 1, 0>>, <<0, 1>>, <<0, 0 - 1>> >>

\* neighbors4: getTile returns undefined outside the grid
neighbors4(g, pos) ==
    SelectSeq([i \in 1 .. 4 |-> <<pos[1] + Deltas[i][1], pos[2] + Deltas[i][2]>>],
              LAMBDA p : InBounds(g, p))

isWalkableForHose(tile) == tile.type # "pillar"

\* Number.POSITIVE_INFINITY: above every cost a grid of the model can add up
Infinity == 1000000000

\* 1 for a path or a water source, 1.3 for soil, in thousandths
getMovementCost(tile) ==
    CASE tile.type \in {"path", "water_source"} -> Scale
      [] tile.type = "soil" -> Scale + 300
      [] OTHER -> Infinity

(* ------------------------------------------------------------------ *)
(* aStar (pathfinding/aStar.ts), called as planHoses calls it           *)
(* ------------------------------------------------------------------ *)

\* the getNeighbors argument: the walkable tiles among neighbors4
getNeighbors(g, pos) ==
    SelectSeq(neighbors4(g, pos), LAMBDA p : isWalkableForHose(g.tiles[p]))

\* the heuristic argument: the Manhattan distance, in thousandths
heuristic(pos, goal) == Scale * Manhattan(pos, goal)

\* the return value "no path"
null == <<>>

\* what Map.get answers for a key the map does not hold: gScore and fScore
\* hold no negative number, cameFrom holds positions
undefined == 0 - 1

\* Map.set, the maps kept as functions on all positions of the grid
MapSet(map, k, v) == [map EXCEPT ![k] = v]

\* openSet.splice(idx, 1)
Splice(seq, idx) == SubSeq(seq, 1, idx - 1) \o SubSeq(seq, idx + 1, Len(seq))

\* the locals of aStar before its loop; returned is <<>> while it runs
aStarStart(g, start, goal) ==
    [grid |-> g,
     start |-> start,
     goal |-> goal,
     openSet |-> <<start>>,
     cameFrom |-> [p \in DOMAIN g.tiles |-> <<>>],
     gScore |-> MapSet([p \in DOMAIN g.tiles |-> undefined], start, 0),
     fScore |-> MapSet([p \in DOMAIN g.tiles |-> undefined], start,
                       heuristic(start, goal)),
     returned |-> <<>>]

\* getLowestF: the first index whose fScore no other index undercuts
getLowestF(openSet, fScore) ==
    CHOOSE i \in 1 .. Len(openSet) :
        /\ \A j \in 1 .. Len(openSet) : fScore[openSet[j]] >= fScore[openSet[i]]
        /\ \A j \in 1 .. (i - 1) : fScore[openSet[j]] > fScore[openSet[i]]

\* reconstructPath: follow cameFrom back from current, then reverse
RECURSIVE reconstructPath(_, _)
reconstructPath(cameFrom, current) ==
    IF cameFrom[current] # <<>>
    THEN Append(reconstructPath(cameFrom, cameFrom[current]), current)
    ELSE <<current>>

\* a loop body that keeps the first route found to a neighbor
Relax_FirstFound(s, current, tentativeG, n) ==
    IF s.gScore[n] = undefined
    THEN [s EXCEPT !.cameFrom = MapSet(@, n, current),
                   !.gScore = MapSet(@, n, tentativeG),
                   !.fScore = MapSet(@, n, tentativeG + heuristic(n, s.goal)),
                   !.openSet = Append(@, n)]
    ELSE s

\* the body of "for (const neighbor of getNeighbors(current))" for one neighbor
Relax(s, current, tentativeG, n) ==
    IF s.gScore[n] = undefined \/ tentativeG < s.gScore[n]
    THEN [s EXCEPT !.cameFrom = MapSet(@, n, current),
                   !.gScore = MapSet(@, n, tentativeG),
                   !.fScore = MapSet(@, n, tentativeG + heuristic(n, s.goal)),
                   !.openSet = IF \E i \in 1 .. Len(@) : @[i] = n
                               THEN @ ELSE Append(@, n)]
    ELSE s

\* "for (const neighbor of getNeighbors(current))": the locals t after the
\* first neighbor are the locals the rest of the loop starts from
RECURSIVE RelaxNeighbors(_, _, _, _)
RelaxNeighbors(s, current, currentG, ns) ==
    IF ns = <<>> THEN s
    ELSE CHOOSE r \in
             {RelaxNeighbors(t, current, currentG, Tail(ns)) :
                 t \in {Relax(s, current,
                               currentG + getMovementCost(s.grid.tiles[Head(ns)]),
                               Head(ns))}} : TRUE

\* current is not the goal: it leaves openSet and its neighbors are relaxed
Expand(s, current) ==
    RelaxNeighbors(s, current, s.gScore[current], getNeighbors(s.grid, current))

\* the node getLowestF picked
Visit(s, currentIdx) ==
    IF s.openSet[currentIdx] = s.goal
    THEN [s EXCEPT !.returned = <<reconstructPath(s.cameFrom, s.goal)>>]
    ELSE CHOOSE r \in
             {Expand(t, s.openSet[currentIdx]) :
                 t \in {[s EXCEPT !.openSet = Splice(@, currentIdx)]}} : TRUE

\* one evaluation of the loop condition and, where it holds, of the loop body
aStarIterate(s) ==
    IF Len(s.openSet) > 0
    THEN CHOOSE r \in {Visit(s, currentIdx) :
                          currentIdx \in {getLowestF(s.openSet, s.fScore)}} : TRUE
    ELSE [s EXCEPT !.returned = <<null>>]

\* the loop run until aStar returns: the locals t after one pass are the
\* locals of the next
RECURSIVE aStarLoop(_)
aStarLoop(s) ==
    IF s.returned # <<>> THEN s.returned[1]
    ELSE CHOOSE r \in {aStarLoop(t) : t \in {aStarIterate(s)}} : TRUE

aStar(g, start, goal) ==
    CHOOSE r \in {aStarLoop(s) : s \in {aStarStart(g, start, goal)}} : TRUE

(* ------------------------------------------------------------------ *)
(* aStar on its own                                                     *)
(* ------------------------------------------------------------------ *)

\* the size of the grids the search and the planner are given
GridWidth == 3
GridHeight == 2

\* every grid of a size made of path, soil and pillar tiles
SmallGrids(width, height) ==
    {MkGarden(width, height, types, {}, 42) :
        types \in [1 .. height -> [1 .. width -> {"path", "soil", "pillar"}]]}

\* the grids one column wider whose first row a pillar at (2,0) blocks: the
\* tile that looks nearest to a goal on the right leads to it by a detour
DetourGrids(width, height) ==
    {MkGarden(width + 1, height, types, {}, 42) :
        types \in {t \in [1 .. height -> [1 .. (width + 1) -> {"path", "soil", "pillar"}]] :
                     \A y \in 1 .. height, x \in 1 .. (width + 1) :
                         (t[y][x] = "pillar") <=> (x = 3 /\ y = 1)}}

\* the grids aStar is called on
SearchGrids(width, height) == SmallGrids(width, height) \cup DetourGrids(width, height)

\* the tiles a search starts from: a corner and the tile next to it, every
\* other start being a mirror image of one of the two
SearchStarts == {<<0, 0>>, <<1, 0>>}

\* a runner that takes no part in a call
IdleRunner ==
    /\ garden = GardenBare(33)
    /\ state = createDefaultState([garden |-> GardenBare(33), coverageRadius |-> 1,
                                   simConfig |-> DefaultSimConfig])
    /\ overrideEpisodeEnd = FALSE
    /\ controller \in {c \in Controllers : c.kind = "default"}
    /\ lastChange = 0 - 1
    /\ manualCalls = 0
    /\ twin = <<>>

\* aStar(start, goal, getNeighbors, heuristic) is entered, the start a soil
\* tile as the tile of a plant is
InitAStar ==
    /\ IdleRunner
    /\ call = <<>>
    /\ \E g \in SearchGrids(GridWidth, GridHeight) :
          \E start \in SearchStarts, goal \in DOMAIN g.tiles :
              /\ g.tiles[start].type = "soil"
              /\ search = aStarStart(g, start, goal)
    /\ planner = <<>>
    /\ trainer = <<>>

\* one pass of "while (openSet.length > 0)", or the return after it
AStarIterate ==
    /\ search.returned = <<>>
    /\ search' = aStarIterate(search)
    /\ UNCHANGED <<runner, twin, call, planner, trainer>>

NextAStar == AStarIterate

SpecAStar == InitAStar /\ [][NextAStar]_vars

\* the loop is sequential code: an iteration that can run does run
SpecAStarFair == SpecAStar /\ WF_vars(NextAStar)

(* ------------------------------------------------------------------ *)
(* planHoses (hosePlanner.ts)                                           *)
(* ------------------------------------------------------------------ *)

\* isPlantCovered: some network tile lies within coverageRadius of the plant
isPlantCovered(networkList, coverageRadius, plant) ==
    \E i \in 1 .. Len(networkList) :
        Manhattan(networkList[i], plant) <= coverageRadius

\* recomputeCoveredPlants: keys are added, never removed
recomputeCoveredPlants(p) ==
    [p EXCEPT !.coveredPlantKeys =
        @ \cup {p.plants[i] : i \in {j \in 1 .. Len(p.plants) :
                   isPlantCovered(p.networkList, p.coverageRadius, p.plants[j])}}]

\* a loop condition that gives up with one plant left
allPlantsCovered_ButOne(p) == Cardinality(p.coveredPlantKeys) + 1 >= Len(p.plants)

allPlantsCovered(p) == Cardinality(p.coveredPlantKeys) >= Len(p.plants)

\* findNearestNetworkPos: the first tile of networkList no other is nearer than
findNearestNetworkPos(networkList, plant) ==
    IF Len(networkList) = 0 THEN null
    ELSE networkList[CHOOSE i \in 1 .. Len(networkList) :
            /\ \A j \in 1 .. Len(networkList) :
                  Manhattan(networkList[j], plant) >= Manhattan(networkList[i], plant)
            /\ \A j \in 1 .. (i - 1) :
                  Manhattan(networkList[j], plant) > Manhattan(networkList[i], plant)]

\* path.slice(1) of the path aStar finds from the plant to its nearest network
\* tile, <<>> where the loop body says "continue"
effectivePath(p, plant) ==
    CHOOSE r \in
        {IF path = null \/ Len(path) < 2 THEN <<>> ELSE Tail(path) :
            path \in {aStar(p.garden, plant,
                            findNearestNetworkPos(p.networkList, plant))}} : TRUE

\* effectivePath.reduce(...): the costs of all its tiles added up
RECURSIVE pathCost(_, _)
pathCost(g, path) ==
    IF path = <<>> THEN 0
    ELSE getMovementCost(g.tiles[Head(path)]) + pathCost(g, Tail(path))

\* the body of "for (const plant of plants)" for one plant
Consider(p, plant, best) ==
    IF plant \in p.coveredPlantKeys THEN best
    ELSE CHOOSE r \in
             {IF path # <<>> /\ pathCost(p.garden, path) < best.bestCost
              THEN [bestPlant |-> plant, bestPath |-> path,
                    bestCost |-> pathCost(p.garden, path)]
              ELSE best :
                 path \in {effectivePath(p, plant)}} : TRUE

\* "for (const plant of plants)" from the i-th plant on
RECURSIVE ConsiderFrom(_, _, _)
ConsiderFrom(p, i, best) ==
    IF i > Len(p.plants) THEN best
    ELSE CHOOSE r \in {ConsiderFrom(p, i + 1, b) :
                          b \in {Consider(p, p.plants[i], best)}} : TRUE

\* the cheapest connection of an uncovered plant, bestPath null if none has one
bestConnection(p) ==
    ConsiderFrom(p, 1, [bestPlant |-> null, bestPath |-> null, bestCost |-> Infinity])

\* "for (const p of bestPath)": the tiles new to the network are appended
RECURSIVE mergeIntoNetwork(_, _)
mergeIntoNetwork(networkList, path) ==
    IF path = <<>> THEN networkList
    ELSE CHOOSE r \in
             {mergeIntoNetwork(n, Tail(path)) :
                 n \in {IF \E i \in 1 .. Len(networkList) : networkList[i] = Head(path)
                        THEN networkList ELSE Append(networkList, Head(path))}} : TRUE

\* the straight line from a tile towards another, along x first, then along y
RECURSIVE Beeline(_, _)
Beeline(from, to) ==
    IF from = to THEN <<>>
    ELSE CHOOSE r \in
             {<<next>> \o Beeline(next, to) :
                 next \in {IF from[1] < to[1] THEN <<from[1] + 1, from[2]>>
                           ELSE IF from[1] > to[1] THEN <<from[1] - 1, from[2]>>
                           ELSE IF from[2] < to[2] THEN <<from[1], from[2] + 1>>
                           ELSE <<from[1], from[2] - 1>>}} : TRUE

\* a loop body that lays the hose straight from the plant to the end of the
\* path found, whatever lies between
connect_Beeline(p, best) ==
    IF best.bestPath = null
    THEN [p EXCEPT !.returned = TRUE]
    ELSE CHOOSE r \in
             {recomputeCoveredPlants(q) :
                 q \in {[p EXCEPT
                     !.hoses = Append(@, Beeline(best.bestPlant,
                                                 best.bestPath[Len(best.bestPath)])),
                     !.networkList =
                         mergeIntoNetwork(@, Beeline(best.bestPlant,
                                                     best.bestPath[Len(best.bestPath)]))]}} : TRUE

\* the rest of the loop body once the cheapest connection is known
connect(p, best) ==
    IF best.bestPath = null
    THEN [p EXCEPT !.returned = TRUE]
    ELSE CHOOSE r \in
             {recomputeCoveredPlants(q) :
                 q \in {[p EXCEPT !.hoses = Append(@, best.bestPath),
                                  !.networkList = mergeIntoNetwork(@, best.bestPath)]}} : TRUE

\* one pass of "while (!allPlantsCovered())": a hose is laid, or the loop is
\* left by break
planIterate(p) ==
    CHOOSE r \in {connect(p, best) : best \in {bestConnection(p)}} : TRUE

\* the locals of planHoses when it reaches its loop, or its early return
planHosesStart(baseGarden, coverageRadius) ==
    IF Len(findWaterSources(baseGarden)) = 0 \/ Len(findPlantTiles(baseGarden)) = 0
    THEN [garden |-> baseGarden, coverageRadius |-> coverageRadius,
          plants |-> findPlantTiles(baseGarden), networkList |-> <<>>,
          coveredPlantKeys |-> {}, hoses |-> <<>>, returned |-> TRUE]
    ELSE recomputeCoveredPlants(
             [garden |-> baseGarden, coverageRadius |-> coverageRadius,
              plants |-> findPlantTiles(baseGarden),
              networkList |-> findWaterSources(baseGarden),
              coveredPlantKeys |-> {}, hoses |-> <<>>, returned |-> FALSE])

(* ------------------------------------------------------------------ *)
(* planHoses on its own                                                 *)
(* ------------------------------------------------------------------ *)

\* the largest coverageRadius the planner is called with
MaxCoverageRadius == 1

\* more hoses than the grid has tiles are not waited for
MaxHoses == GridWidth * GridHeight

\* every grid of a size made of water sources, pillars, bare soil and soil
\* with a plant
PlannerGardens(width, height) ==
    {MkGarden(width, height,
              [y \in 1 .. height |-> [x \in 1 .. width |->
                  IF kinds[y][x] = "plant" THEN "soil" ELSE kinds[y][x]]],
              {q \in Positions(width, height) : kinds[q[2] + 1][q[1] + 1] = "plant"},
              42) :
        kinds \in [1 .. height -> [1 .. width ->
                      {"water_source", "soil", "pillar", "plant"}]]}

\* planHoses(baseGarden, {coverageRadius}) is entered
InitPlanner ==
    /\ IdleRunner
    /\ call = <<>>
    /\ search = <<>>
    /\ \E g \in PlannerGardens(GridWidth, GridHeight),
          coverageRadius \in 0 .. MaxCoverageRadius :
          planner = planHosesStart(g, coverageRadius)
    /\ trainer = <<>>

\* one pass of the main loop
PlanIterate ==
    /\ ~planner.returned
    /\ ~allPlantsCovered(planner)
    /\ Len(planner.hoses) < MaxHoses
    /\ planner' = planIterate(planner)
    /\ UNCHANGED <<runner, twin, call, search, trainer>>

\* the loop condition fails: planHoses returns
PlanReturn ==
    /\ ~planner.returned
    /\ allPlantsCovered(planner)
    /\ planner' = [planner EXCEPT !.returned = TRUE]
    /\ UNCHANGED <<runner, twin, call, search, trainer>>

NextPlanner == PlanIterate \/ PlanReturn

SpecPlanner == InitPlanner /\ [][NextPlanner]_vars

\* the loop is sequential code: a pass that can run does run
SpecPlannerFair == SpecPlanner /\ WF_vars(NextPlanner)

(* ------------------------------------------------------------------ *)
(* GeneticAlgorithmTrainer (HumidityPredictorNN.ts)                     *)
(* ------------------------------------------------------------------ *)

\* x >> 16 of a 32-bit word: the high half, sign-extended
Sar16(a) == IF a[1] >= 32768 THEN <<W16 - 1, a[1]>> ELSE <<0, a[1]>>

\* createSeededRNG: m_w = seed, m_z = 987654321 = 15070 * 2^16 + 26801
createSeededRNG(seed) == [m_w |-> <<0, seed>>, m_z |-> <<15070, 26801>>]

\* one call of the generator: m_z and m_w after it
rngNext(rng) ==
    [m_z |-> Add32(Imul32(<<0, 36969>>, <<0, rng.m_z[2]>>), Sar16(rng.m_z)),
     m_w |-> Add32(Imul32(<<0, 18000>>, <<0, rng.m_w[2]>>), Sar16(rng.m_w))]

\* the generator after n calls
RECURSIVE rngAfter(_, _)
rngAfter(rng, n) ==
    IF n = 0 THEN rng
    ELSE CHOOSE r \in {rngAfter(next, n - 1) : next \in {rngNext(rng)}} : TRUE

\* Math.floor(result * k) of the call that left rng, where
\* result = ((m_z << 16) + (m_w & 65535)) >>> 0 over 2^32, for k < 2^15
rngFloor(rng, k) ==
    ((rng.m_z[2] * k) + ((rng.m_w[2] * k) \div W16)) \div W16

\* Math.random: a stream the program does not control; the streams of the
\* same generator started from entropy stand for it
MathRandom(entropy) == [m_w |-> <<0, entropy>>, m_z |-> <<0, entropy>>]

\* a constructor that takes Math.random whatever the configuration says
Constructor_IgnoresSeed(config, entropy) == MathRandom(entropy)

\* the constructor: this.rng is the seeded generator or Math.random
Constructor(config, entropy) ==
    IF config.seed # undefined
    THEN createSeededRNG(config.seed)
    ELSE MathRandom(entropy)

\* randomParams: eight calls of rng in the order of the object literal;
\* weights, scales and the duty cycle in thousandths
randomParams(rng) ==
    [drynessWeight |-> rngFloor(rngAfter(rng, 1), 3 * Scale),
     floodWeight |-> rngFloor(rngAfter(rng, 2), 2 * Scale),
     waterWeight |-> rngFloor(rngAfter(rng, 3), Scale),
     predictionHorizonTicks |-> rngFloor(rngAfter(rng, 4), 30) + 5,
     fuzzyDrynessScale |-> rngFloor(rngAfter(rng, 5), Scale),
     fuzzyFloodScale |-> rngFloor(rngAfter(rng, 6), Scale),
     minTicksBetweenToggles |-> rngFloor(rngAfter(rng, 7), 10) + 1,
     maxDutyCycle |-> rngFloor(rngAfter(rng, 8), 400) + 300]

\* the number NaN, outside every range a gene can take
NaN == 0 - (2 * Infinity)

\* Math.max and Math.min of two numbers: NaN if either is NaN
MathMax(a, b) == IF a = NaN \/ b = NaN THEN NaN ELSE Max2(a, b)

MathMin(a, b) == IF a = NaN \/ b = NaN THEN NaN ELSE Min2(a, b)

\* params.gene ?? fallback: the fallback where the gene is missing or
\* undefined, the gene otherwise, NaN included
Coalesce(params, gene, fallback) ==
    IF gene \in DOMAIN params THEN params[gene] ELSE fallback

\* clampParams of a Partial<ControllerParams>; the two tick counts arrive
\* whole or NaN, and Math.round returns them as they are
clampParams(params) ==
    [drynessWeight |-> MathMax(0, Coalesce(params, "drynessWeight", Scale)),
     floodWeight |-> MathMax(0, Coalesce(params, "floodWeight", Scale)),
     waterWeight |-> MathMax(0, Coalesce(params, "waterWeight", 300)),
     predictionHorizonTicks |->
         MathMax(1, MathMin(100, Coalesce(params, "predictionHorizonTicks", 10))),
     fuzzyDrynessScale |->
         MathMax(0, MathMin(Scale, Coalesce(params, "fuzzyDrynessScale", 500))),
     fuzzyFloodScale |->
         MathMax(0, MathMin(Scale, Coalesce(params, "fuzzyFloodScale", 400))),
     minTicksBetweenToggles |->
         MathMax(0, Coalesce(params, "minTicksBetweenToggles", 3)),
     maxDutyCycle |->
         MathMax(100, MathMin(Scale, Coalesce(params, "maxDutyCycle", 600)))]

\* the episode loop of evaluateFitness: step() until the episode is over,
\* then compileResults().finalScore
RECURSIVE runEpisode(_, _, _)
runEpisode(g, st, c) ==
    IF st.tick < st.episodeLength
    THEN CHOOSE score \in
             {runEpisode(r.garden, r.state, c) : r \in {step(g, st, FALSE, c)}} : TRUE
    ELSE Results(g, st).finalScore

\* evaluateFitness: the average of the final scores, in thousandths; the
\* garden options are fixed, so every episode is the same run
evaluateFitness(params, evalConfig) ==
    CHOOSE avgFitness \in
        {DivT(Scale * evalConfig.episodesPerIndividual * score,
              evalConfig.episodesPerIndividual) :
            score \in {runEpisode(evalConfig.gardenOptions.garden, st,
                                  [kind |-> "smart", params |-> params,
                                   irrigationEnabled |-> FALSE]) :
                          st \in {createDefaultState(evalConfig.gardenOptions)}}} : TRUE

\* gaussianRandom of the two calls of rng that follow rng, to the precision
\* of two tables in thousandths: sqrt(-2 ln u1) for u1 in the middle of each
\* tenth of [0, 1) and cos(2 pi u2) for u2 in the middle of each eighth
gaussianRandom(rng) ==
    Mul(<<2448, 1948, 1665, 1449, 1264, 1093, 928, 759, 570, 320>>
            [rngFloor(rngAfter(rng, 1), 10) + 1],
        <<924, 383, 0 - 383, 0 - 924, 0 - 924, 0 - 383, 383, 924>>
            [rngFloor(rngAfter(rng, 2), 8) + 1])

\* Math.round of a number in thousandths
Round(x) == IF x >= 0 THEN (x + 500) \div Scale ELSE 0 - ((499 - x) \div Scale)

\* the genes in the order mutate visits them, with the noise each one gets:
\* a share of mutationStdDev in thousandths, or whole steps of Math.round
Genes ==
    <<[name |-> "drynessWeight", share |-> Scale, steps |-> 0],
      [name |-> "floodWeight", share |-> Scale, steps |-> 0],
      [name |-> "waterWeight", share |-> Scale, steps |-> 0],
      [name |-> "predictionHorizonTicks", share |-> 0, steps |-> 2],
      [name |-> "fuzzyDrynessScale", share |-> 500, steps |-> 0],
      [name |-> "fuzzyFloodScale", share |-> 500, steps |-> 0],
      [name |-> "minTicksBetweenToggles", share |-> 0, steps |-> 1],
      [name |-> "maxDutyCycle", share |-> 300, steps |-> 0]>>

\* one "if (this.rng() < this.config.mutationRate)" of mutate: m holds the
\* params so far and the generator, gauss is gaussianRandom() if it is called
MutateGene(m, gene, config, gauss) ==
    IF rngFloor(rngNext(m.rng), Scale) < config.mutationRate
    THEN [params |-> [m.params EXCEPT ![gene.name] =
                         @ + IF gene.steps > 0
                             THEN Round(gauss * gene.steps)
                             ELSE Mul(Mul(gauss, config.mutationStdDev), gene.share)],
          rng |-> rngAfter(m.rng, 3)]
    ELSE [params |-> m.params, rng |-> rngNext(m.rng)]

RECURSIVE MutateFrom(_, _, _)
MutateFrom(m, i, config) ==
    IF i > Len(Genes) THEN m
    ELSE CHOOSE r \in {MutateFrom(n, i + 1, config) :
                          n \in {MutateGene(m, Genes[i], config,
                                          gaussianRandom(rngNext(m.rng)))}} : TRUE

\* mutate: the clamped params and the generator after it
mutate(params, rng, config) ==
    CHOOSE r \in
        {[params |-> clampParams(m.params), rng |-> m.rng] :
            m \in {MutateFrom([params |-> params, rng |-> rng], 1, config)}} : TRUE

\* alpha * a + (1 - alpha) * b in thousandths
Blend(a, b, alpha) == DivT((a * alpha) + (b * (Scale - alpha)), Scale)

\* crossover with alpha the call of rng that left rng
crossover(parent1, parent2, rng) ==
    [drynessWeight |->
        Blend(parent1.drynessWeight, parent2.drynessWeight, rngFloor(rng, Scale)),
     floodWeight |->
        Blend(parent1.floodWeight, parent2.floodWeight, rngFloor(rng, Scale)),
     waterWeight |->
        Blend(parent1.waterWeight, parent2.waterWeight, rngFloor(rng, Scale)),
     predictionHorizonTicks |->
        Round((parent1.predictionHorizonTicks * rngFloor(rng, Scale))
              + (parent2.predictionHorizonTicks * (Scale - rngFloor(rng, Scale)))),
     fuzzyDrynessScale |->
        Blend(parent1.fuzzyDrynessScale, parent2.fuzzyDrynessScale,
              rngFloor(rng, Scale)),
     fuzzyFloodScale |->
        Blend(parent1.fuzzyFloodScale, parent2.fuzzyFloodScale, rngFloor(rng, Scale)),
     minTicksBetweenToggles |->
        Round((parent1.minTicksBetweenToggles * rngFloor(rng, Scale))
              + (parent2.minTicksBetweenToggles * (Scale - rngFloor(rng, Scale)))),
     maxDutyCycle |->
        Blend(parent1.maxDutyCycle, parent2.maxDutyCycle, rngFloor(rng, Scale))]

\* the fitness of a chromosome not evaluated yet
NegInfinity == 0 - Infinity

\* "Array.from({ length: populationSize }, ...)": individual i takes the
\* eight calls of rng after those of the individuals before it
initialChromosome(rng, i) ==
    CHOOSE r \in
        {[params |-> randomParams(own), fitness |-> NegInfinity] :
            own \in {rngAfter(rng, 8 * (i - 1))}} : TRUE

\* new GeneticAlgorithmTrainer(config) and train(evalConfig) up to its
\* generation loop: the chromosomes live in heap, the population and
\* bestChromosome refer to them by their index in it; evaluations counts the
\* calls of evaluateFitness per chromosome
trainStart(config, evalConfig, entropy) ==
    CHOOSE t \in
        {[config |-> config,
          evalConfig |-> evalConfig,
          rng |-> rngAfter(rng, 8 * config.populationSize),
          heap |-> SubSeq([i \in 1 .. config.populationSize |->
                              initialChromosome(rng, i)], 1, config.populationSize),
          population |-> SubSeq([i \in 1 .. config.populationSize |-> i],
                                1, config.populationSize),
          bestChromosome |-> 1,
          fitnessHistory |-> <<>>,
          gen |-> 0,
          pc |-> "evaluate",
          evaluations |-> SubSeq([i \in 1 .. config.populationSize |-> 0],
                                 1, config.populationSize),
          returned |-> <<>>] :
            rng \in {Constructor(config, entropy)}} : TRUE

\* every member of the population, evaluated or not
Unevaluated_All(t) == {t.population[i] : i \in 1 .. Len(t.population)}

\* the members of the population whose fitness is still -Infinity
Unevaluated(t) ==
    {t.population[i] : i \in {j \in 1 .. Len(t.population) :
                                 t.heap[t.population[j]].fitness = NegInfinity}}

\* "for (let i = 0; i < population.length; i++)": the evaluation loop
evaluatePopulation(t) ==
    [t EXCEPT
        !.heap = [id \in 1 .. Len(t.heap) |->
                     IF id \in Unevaluated(t)
                     THEN [t.heap[id] EXCEPT
                              !.fitness = evaluateFitness(t.heap[id].params,
                                                          t.evalConfig)]
                     ELSE t.heap[id]],
        !.evaluations = [id \in 1 .. Len(t.heap) |->
                            IF id \in Unevaluated(t) THEN @[id] + 1 ELSE @[id]],
        !.pc = "select"]

\* id put behind the members of sorted that are at least as fit
InsertByFitness(heap, sorted, id) ==
    CHOOSE r \in
        {SubSeq(sorted, 1, k) \o <<id>> \o SubSeq(sorted, k + 1, Len(sorted)) :
            k \in {Cardinality({j \in 1 .. Len(sorted) :
                       heap[sorted[j]].fitness >= heap[id].fitness})}} : TRUE

\* population.sort((a, b) => b.fitness - a.fitness): stable, fittest first
RECURSIVE sortPopulation(_, _, _)
sortPopulation(heap, population, n) ==
    IF n = 0 THEN <<>>
    ELSE CHOOSE r \in
             {InsertByFitness(heap, sorted, population[n]) :
                 sorted \in {sortPopulation(heap, population, n - 1)}} : TRUE

\* "Track best" on the sorted population
trackBest(heap, population, bestChromosome) ==
    IF heap[population[1]].fitness > heap[bestChromosome].fitness
    THEN population[1] ELSE bestChromosome

\* sort and track best with the history entry taken before the best is tracked
select_PushBeforeTrack(t) ==
    CHOOSE r \in
        {[t EXCEPT !.population = sorted,
                   !.bestChromosome = trackBest(t.heap, sorted, t.bestChromosome),
                   !.fitnessHistory = Append(@, t.heap[t.bestChromosome].fitness),
                   !.pc = "reproduce"] :
            sorted \in {sortPopulation(t.heap, t.population, Len(t.population))}} : TRUE

\* sort, track best, fitnessHistory.push
select(t) ==
    CHOOSE r \in
        {[t EXCEPT !.population = sorted,
                   !.bestChromosome = best,
                   !.fitnessHistory = Append(@, t.heap[best].fitness),
                   !.pc = "reproduce"] :
            sorted \in {sortPopulation(t.heap, t.population, Len(t.population))},
            best \in {trackBest(t.heap,
                                sortPopulation(t.heap, t.population, Len(t.population)),
                                t.bestChromosome)}} : TRUE

\* Math.ceil(populationSize * elitismRate), the rate in thousandths
numElite(config) == ((config.populationSize * config.elitismRate) + Scale - 1) \div Scale

\* population.slice(0, numElite)
elite(t) == SubSeq(t.population, 1, Min2(numElite(t.config), Len(t.population)))

\* one pass of the offspring loop: two parents from the elite, crossover,
\* mutate, push
breed(t, parents) ==
    CHOOSE r \in
        {[t EXCEPT !.heap = Append(@, [params |-> m.params, fitness |-> NegInfinity]),
                   !.evaluations = Append(@, 0),
                   !.population = Append(@, Len(t.heap) + 1),
                   !.rng = m.rng] :
            m \in {mutate(crossover(
                              t.heap[parents[rngFloor(rngAfter(t.rng, 1), Len(parents)) + 1]].params,
                              t.heap[parents[rngFloor(rngAfter(t.rng, 2), Len(parents)) + 1]].params,
                              rngAfter(t.rng, 3)),
                          rngAfter(t.rng, 3), t.config)}} : TRUE

\* "while (offspring.length < populationSize - numElite)"
RECURSIVE breedUntilFull(_, _)
breedUntilFull(t, parents) ==
    IF Len(t.population) >= t.config.populationSize THEN t
    ELSE CHOOSE r \in {breedUntilFull(u, parents) : u \in {breed(t, parents)}} : TRUE

\* elitism and offspring: with no elite and offspring to make, parent1 is
\* undefined and parent1.params throws a TypeError
reproduce(t) ==
    IF Len(elite(t)) = 0 /\ t.config.populationSize - numElite(t.config) > 0
    THEN [t EXCEPT !.rng = rngAfter(@, 2), !.pc = "thrown"]
    ELSE CHOOSE r \in
             {[u EXCEPT !.gen = @ + 1, !.pc = "evaluate"] :
                 u \in {breedUntilFull([t EXCEPT !.population = elite(t)],
                                       elite(t))}} : TRUE

\* the TrainingResults train() returns
trainReturn(t) ==
    [t EXCEPT
        !.returned = <<[bestChromosome |-> t.heap[t.bestChromosome],
                        fitnessHistory |-> t.fitnessHistory,
                        finalPopulation |->
                            [i \in 1 .. Len(t.population) |-> t.heap[t.population[i]]]]>>,
        !.pc = "returned"]

\* train() from where t stands to the next of its phases
trainAdvance(t) ==
    CASE t.pc = "evaluate" /\ t.gen < t.config.generations -> evaluatePopulation(t)
      [] t.pc = "evaluate" /\ t.gen >= t.config.generations -> trainReturn(t)
      [] t.pc = "select" -> select(t)
      [] t.pc = "reproduce" -> reproduce(t)

(* ------------------------------------------------------------------ *)
(* train() run twice                                                    *)
(* ------------------------------------------------------------------ *)

MaxPopulation == 3
MaxGenerations == 2

\* GATrainerConfig: the rates and the deviation in thousandths, the seed
\* given or left out
GAConfigs ==
    [populationSize : 1 .. MaxPopulation,
     generations : 0 .. MaxGenerations,
     elitismRate : {0, 300, 500, Scale},
     mutationStdDev : {200},
     mutationRate : {0, 600},
     seed : {undefined, 42}]

\* EvaluationConfig: two episodes per individual on a fixed garden
EvalConfigs ==
    {[episodesPerIndividual |-> 2,
      gardenOptions |-> [garden |-> GardenRow(42), coverageRadius |-> 1,
                         simConfig |-> FastSimConfig]]}

\* what Math.random may deliver to a trainer without a seed
Entropies == {3, 151}

\* two trainers are constructed from one configuration: trainer[1] and
\* trainer[2], each with train() just entered
InitTrainer ==
    /\ IdleRunner
    /\ call = <<>>
    /\ search = <<>>
    /\ planner = <<>>
    /\ \E config \in GAConfigs, evalConfig \in EvalConfigs :
          \E e1 \in Entropies, e2 \in Entropies :
              /\ trainer = <<trainStart(config, evalConfig, e1),
                             trainStart(config, evalConfig, e2)>>

\* the evaluation loop of one generation of the first trainer
TrainEvaluate ==
    /\ trainer[1].pc = "evaluate"
    /\ trainer[1].gen < trainer[1].config.generations
    /\ trainer' = [trainer EXCEPT ![1] = evaluatePopulation(trainer[1])]
    /\ UNCHANGED <<runner, twin, call, search, planner>>

\* sort, track best and the history entry of one generation
TrainSelect ==
    /\ trainer[1].pc = "select"
    /\ trainer' = [trainer EXCEPT ![1] = select(trainer[1])]
    /\ UNCHANGED <<runner, twin, call, search, planner>>

\* elitism and offspring of one generation
TrainReproduce ==
    /\ trainer[1].pc = "reproduce"
    /\ trainer' = [trainer EXCEPT ![1] = reproduce(trainer[1])]
    /\ UNCHANGED <<runner, twin, call, search, planner>>

\* the loop is over: train() returns
TrainReturn ==
    /\ trainer[1].pc = "evaluate"
    /\ trainer[1].gen >= trainer[1].config.generations
    /\ trainer' = [trainer EXCEPT ![1] = trainReturn(trainer[1])]
    /\ UNCHANGED <<runner, twin, call, search, planner>>

\* train() of the second trainer, once the first is done
TrainAgain ==
    /\ trainer[1].pc \in {"returned", "thrown"}
    /\ trainer[2].pc \notin {"returned", "thrown"}
    /\ trainer' = [trainer EXCEPT ![2] = trainAdvance(trainer[2])]
    /\ UNCHANGED <<runner, twin, call, search, planner>>

NextTrainer ==
    \/ TrainEvaluate
    \/ TrainSelect
    \/ TrainReproduce
    \/ TrainReturn
    \/ TrainAgain

SpecTrainer == InitTrainer /\ [][NextTrainer]_vars

(* ------------------------------------------------------------------ *)
(* clampParams on its own                                               *)
(* ------------------------------------------------------------------ *)

\* what a gene can arrive as: missing, NaN, a number below its range or a
\* number above it
GeneArrivals == {"missing", "NaN", "below", "above"}

\* the Partial<ControllerParams> in which every gene arrives as arrival says
ArrivingParams(arrival) ==
    [gene \in {g \in DOMAIN arrival : arrival[g] # "missing"} |->
        CASE arrival[gene] = "NaN" -> NaN
          [] arrival[gene] = "below" -> 0 - 250
          [] arrival[gene] = "above" -> 1250]

\* clampParams(params) is entered
InitClamp ==
    /\ IdleRunner
    /\ \E arrival \in [DOMAIN DEFAULT_CONTROLLER_PARAMS -> GeneArrivals] :
          call = [arrival |-> arrival, params |-> ArrivingParams(arrival),
                  result |-> <<>>]
    /\ search = <<>>
    /\ planner = <<>>
    /\ trainer = <<>>

\* clampParams returns
CallClampParams ==
    /\ call.result = <<>>
    /\ call' = [call EXCEPT !.result = <<clampParams(call.params)>>]
    /\ UNCHANGED <<runner, twin, search, planner, trainer>>

SpecClamp == InitClamp /\ [][CallClampParams]_vars

(* ------------------------------------------------------------------ *)
(* stepGardenMoisture on its own                                        *)
(* ------------------------------------------------------------------ *)

\* a step that builds its result in the rows of the garden it is given
stepGardenMoistureCall_InPlace(g, config, weather, irrigationOn) ==
    [garden |-> stepGardenMoisture(g, config, weather, irrigationOn),
     returned |-> stepGardenMoisture(g, config, weather, irrigationOn)]

\* a call of stepGardenMoisture: the garden passed in as the call leaves it,
\* every write going to the cloned rows of newTiles and to the moisture and
\* diffs grids, and the new garden returned
stepGardenMoistureCall(g, config, weather, irrigationOn) ==
    [garden |-> g,
     returned |-> stepGardenMoisture(g, config, weather, irrigationOn)]

\* the moistures the tiles of a garden are given
MoistureLevels == {0, 450, 1600}

\* the gardens the step is called on: a planned garden with any moisture on
\* any tile
WetGardens ==
    UNION {{[g EXCEPT !.tiles = [p \in DOMAIN g.tiles |->
                                   [g.tiles[p] EXCEPT !.moisture = level[p]]]] :
               level \in [DOMAIN g.tiles -> MoistureLevels]} :
           g \in {GardenStrip(42), GardenBlock(42)}}

\* the weather of a dry and of a rainy tick
StepWeathers ==
    {[temperature |-> 25000, humidity |-> 500, sunIntensity |-> 800,
      rainIntensity |-> rain] : rain \in {0, 600}}

\* stepGardenMoisture({garden, config, weather, irrigationOn}) is entered
InitMoisture ==
    /\ IdleRunner
    /\ \E g \in WetGardens, simConfig \in SimConfigs, weather \in StepWeathers,
          irrigationOn \in BOOLEAN :
          call = [given |-> g, garden |-> g, config |-> simConfig,
                  weather |-> weather, irrigationOn |-> irrigationOn,
                  returned |-> <<>>, diffused |-> <<>>]
    /\ search = <<>>
    /\ planner = <<>>
    /\ trainer = <<>>

\* the call returns
CallStepGardenMoisture ==
    /\ call.returned = <<>>
    /\ \E r \in {stepGardenMoistureCall(call.garden, call.config, call.weather,
                                         call.irrigationOn)} :
          call' = [call EXCEPT !.garden = r.garden, !.returned = <<r.returned>>]
    /\ UNCHANGED <<runner, twin, search, planner, trainer>>

\* the diffusion phase alone, on the moisture grid of the garden
CallDiffusionPhase ==
    /\ call.diffused = <<>>
    /\ call' = [call EXCEPT !.diffused =
                    <<DiffusionPhase(call.given, call.config, MoistureOf(call.given))>>]
    /\ UNCHANGED <<runner, twin, search, planner, trainer>>

NextMoisture ==
    \/ CallStepGardenMoisture
    \/ CallDiffusionPhase

SpecMoisture == InitMoisture /\ [][NextMoisture]_vars

(* ------------------------------------------------------------------ *)
(* Properties                                                           *)
(* ------------------------------------------------------------------ *)

\* the soil tiles within Manhattan distance coverageRadius of a hose tile
CoveredSoil(g, coverageRadius) ==
    {p \in SoilTiles(g) :
        \E h \in HoseTiles(g) : Manhattan(p, h) <= coverageRadius}

\* C1: after every moisture step, every soil tile of the garden holds a
\* moisture of at least 0 and at most config.maxMoisture, at every tick of
\* an episode.
C1_MoistureWithinBounds ==
    \A p \in SoilTiles(garden) :
        /\ garden.tiles[p].moisture >= 0
        /\ garden.tiles[p].moisture <= state.config.maxMoisture

\* a step has run and left a soil tile exactly at the ceiling
C1_Witness ==
    /\ state.tick > 0
    /\ \E p \in SoilTiles(garden) :
          garden.tiles[p].moisture = state.config.maxMoisture

\* C2: with irrigation on, the sourcing phase adds irrigationRate to every
\* soil tile within Manhattan distance coverageRadius of a hose tile, and
\* nothing to the soil tiles farther away.
C2_SourcingWithinRadius ==
    LET m == MoistureOf(garden)
        sourced == IrrigationPhase(garden, state.config, TRUE, m)
    IN  \A p \in SoilTiles(garden) :
            sourced[p] - m[p] =
                IF p \in CoveredSoil(garden, state.config.coverageRadius)
                THEN state.config.irrigationRate
                ELSE 0

C4_TerminalStepIsNoOp ==
    [][StepTerminal =>
          /\ garden' = garden
          /\ state'.tick = state.tick
          /\ state'.weather = state.weather
          /\ state'.forecast = state.forecast
          /\ state'.irrigationOn = state.irrigationOn
          /\ state'.lastIrrigationTick = state.lastIrrigationTick
          /\ state'.irrigationToggleCount = state.irrigationToggleCount
          /\ state'.irrigationOnTicks = state.irrigationOnTicks
          /\ state'.waterUsedThisTick = state.waterUsedThisTick
          /\ state'.cumulativeWaterUsed = state.cumulativeWaterUsed
          /\ state'.dryPlantTicks = state.dryPlantTicks
          /\ state'.floodedPlantTicks = state.floodedPlantTicks
          /\ state'.healthyPlantTicks = state.healthyPlantTicks
          /\ state'.peakSimultaneousFloodedPlants
                = state.peakSimultaneousFloodedPlants
          /\ state'.peakSimultaneousDryPlants = state.peakSimultaneousDryPlants
          /\ state'.results # <<>>
          /\ ~state'.isRunning
          /\ overrideEpisodeEnd' = overrideEpisodeEnd]_vars

\* the episode is over, its results are compiled and the runner stopped
C4_Witness ==
    /\ Terminal(state, overrideEpisodeEnd)
    /\ state.tick = state.episodeLength
    /\ state.results # <<>>
    /\ state.results[1].tickCount = state.episodeLength
    /\ ~state.isRunning
    /\ state.cumulativeWaterUsed > 0

\* C5: in a non-terminal step, irrigationToggleCount grows by one iff the
\* decision of the policy differs from the flag held before the step,
\* lastIrrigationTick becomes the current tick iff the flag went from off to
\* on, and irrigationOnTicks grows by one iff the decided flag is on.
C5_ToggleBookkeeping ==
    [][(state'.tick = state.tick + 1 /\ StepTick) =>
          LET decision == Decide(controller,
                                 computeGardenMetrics(state, garden), state)
          IN  /\ state'.irrigationOn = decision
              /\ state'.irrigationToggleCount =
                    state.irrigationToggleCount
                      + (IF decision # state.irrigationOn THEN 1 ELSE 0)
              /\ state'.lastIrrigationTick =
                    IF ~state.irrigationOn /\ decision
                    THEN state.tick ELSE state.lastIrrigationTick
              /\ state'.irrigationOnTicks =
                    state.irrigationOnTicks + (IF decision THEN 1 ELSE 0)]_vars

\* the flag has gone off and come back on, at a tick that was recorded
C5_Witness ==
    /\ state.irrigationToggleCount >= 2
    /\ state.irrigationOn
    /\ state.lastIrrigationTick > 0
    /\ state.irrigationOnTicks < state.tick

\* C6: in a non-terminal step the water used this tick is the number of
\* distinct soil tiles within Manhattan distance coverageRadius of a hose
\* tile times irrigationRate when the decided flag is on and 0 when it is
\* off, cumulativeWaterUsed grows by that amount, and an episode run with
\* the always-off policy ends with totalWaterUsed = 0.
C6_WaterUsed ==
    [][/\ (state'.tick = state.tick + 1 /\ StepTick) =>
            LET used == IF state'.irrigationOn
                        THEN Cardinality(CoveredSoil(garden,
                                            state.config.coverageRadius))
                               * state.config.irrigationRate
                        ELSE 0
            IN  /\ state'.waterUsedThisTick = used
                /\ state'.cumulativeWaterUsed
                      = state.cumulativeWaterUsed + used
       /\ (controller.kind = "alwaysOff" /\ StepTerminal) =>
            state'.results[1].totalWaterUsed = 0]_vars

\* water has been used on a garden that has a hose next to a tile that is
\* no soil, over ticks with the hose on and ticks with it off
C6_Witness ==
    /\ state.waterUsedThisTick > 0
    /\ state.cumulativeWaterUsed > state.waterUsedThisTick
    /\ state.irrigationOnTicks < state.tick
    /\ \E h \in HoseTiles(garden) : garden.tiles[h].type # "soil"


\* what the composite policy sees and decides in the current state of the
\* runner
RunnerMetrics == computeGardenMetrics(state, garden)

RunnerRisks == FuzzyEvaluate(RunnerMetrics, state.weather, state.forecast)

RunnerFutureDryOff == predictFutureDryness(RunnerMetrics, state.weather, 0)

RunnerDecision == SmartDecide(controller.params, RunnerMetrics, state)

\* the runner is inside the ticks T+1..T+4 after its flag turned on at T
AfterTurnOn ==
    /\ controller.kind = "smart"
    /\ controller.params.minTicksBetweenToggles = 5
    /\ ~Terminal(state, overrideEpisodeEnd)
    /\ state.lastIrrigationTick > 0
    /\ state.tick - state.lastIrrigationTick \in 1 .. 4

ExtremeCondition ==
    \/ state.irrigationOn /\ RunnerRisks.floodRisk > 600
    \/ ~state.irrigationOn /\ (RunnerRisks.drynessRisk > 900
                                 \/ RunnerFutureDryOff > 900)

\* C8: under the composite policy, after the flag changed at tick T (in
\* either direction) it does not change again at a tick of
\* T+1..T+minTicksBetweenToggles-1 unless an extreme condition holds at
\* that tick.
C8_NoEarlyToggle ==
    [][(/\ state'.tick = state.tick + 1
        /\ StepTick
        /\ controller.kind = "smart"
        /\ lastChange >= 0
        /\ state.tick - lastChange \in
              1 .. (controller.params.minTicksBetweenToggles - 1)
        /\ state'.irrigationOn # state.irrigationOn)
          => ExtremeCondition]_vars

\* the flood risk SmartIrrigationController.decide evaluated in the call
CallRisks == FuzzyEvaluate(call.metrics, call.state.weather, call.state.forecast)

CallFutureDryOff == predictFutureDryness(call.metrics, call.state.weather, 0)

\* the call fell into the hysteresis branch with irrigation off and an
\* extreme dryness
CallKeptDryException ==
    /\ call.metrics.ticksSinceLastIrrigation
          < controller.params.minTicksBetweenToggles
    /\ ~call.state.irrigationOn
    /\ (CallRisks.drynessRisk > 900 \/ CallFutureDryOff > 900)

C10_DutyCycleCap ==
    (/\ controller.kind = "smart"
     /\ ~Terminal(state, overrideEpisodeEnd)
     /\ HardWaterCapReached(controller.params, state)
     /\ RunnerRisks.drynessRisk < 900
     /\ RunnerFutureDryOff < 900)
        => ~RunnerDecision

\* the positions one step away from p that a route may enter
Enterable(g, p) ==
    {q \in DOMAIN g.tiles : Manhattan(p, q) = 1 /\ g.tiles[q].type # "pillar"}

\* the positions some route from the positions of S ends at
RECURSIVE ReachableFrom(_, _)
ReachableFrom(g, S) ==
    IF (UNION {Enterable(g, p) : p \in S}) \subseteq S THEN S
    ELSE ReachableFrom(g, S \cup UNION {Enterable(g, p) : p \in S})

\* the least number of a set of numbers
Least(S) == CHOOSE m \in S : \A n \in S : m <= n

\* one round of relaxation of the cheapest known costs d, a sequence in the
\* order of RowMajor
CheaperBy(g, d) ==
    SubSeq([i \in 1 .. Len(d) |->
               IF g.tiles[RowMajor(g)[i]].type = "pillar" THEN d[i]
               ELSE Least({d[i]} \cup
                          {d[j] + getMovementCost(g.tiles[RowMajor(g)[i]]) :
                              j \in {k \in 1 .. Len(d) :
                                        Manhattan(RowMajor(g)[k], RowMajor(g)[i]) = 1}})],
           1, Len(d))

\* the cheapest costs of the routes of at most k steps from start
RECURSIVE CheapestWithin(_, _, _)
CheapestWithin(g, start, k) ==
    IF k = 0
    THEN SubSeq([i \in 1 .. (g.width * g.height) |->
                    IF RowMajor(g)[i] = start THEN 0 ELSE Infinity],
                1, g.width * g.height)
    ELSE CheaperBy(g, CheapestWithin(g, start, k - 1))

\* the cost of the cheapest route from start to goal
CheapestCost(g, start, goal) ==
    CheapestWithin(g, start, g.width * g.height)[(goal[2] * g.width) + goal[1] + 1]

\* the sum of the costs of the tiles a route enters
RECURSIVE RouteCost(_, _)
RouteCost(g, path) ==
    IF Len(path) <= 1 THEN 0
    ELSE getMovementCost(g.tiles[path[Len(path)]])
         + RouteCost(g, SubSeq(path, 1, Len(path) - 1))

\* path is a route from start to goal: 4-adjacent steps onto tiles that are
\* no pillars
IsRoute(g, path, start, goal) ==
    /\ Len(path) >= 1
    /\ path[1] = start
    /\ path[Len(path)] = goal
    /\ \A i \in 2 .. Len(path) :
          /\ path[i] \in DOMAIN g.tiles
          /\ Manhattan(path[i - 1], path[i]) = 1
          /\ g.tiles[path[i]].type # "pillar"

SearchReturned == search.returned # <<>>

SearchReturnedRight ==
    SearchReturned =>
        IF search.goal \in ReachableFrom(search.grid, {search.start})
        THEN /\ IsRoute(search.grid, search.returned[1], search.start, search.goal)
             /\ RouteCost(search.grid, search.returned[1])
                  = CheapestCost(search.grid, search.start, search.goal)
        ELSE search.returned[1] = null

\* C15: with the costs 1 (path, water source) and 1.3 (soil), pillars never
\* entered, and the Manhattan heuristic, every call of aStar returns, what it
\* returns for a reachable goal is a route of 4-adjacent positions from start
\* to goal whose cost is the least any such route has, and it returns null
\* exactly when no route reaches the goal.
C15_ShortestPathSearch == <>SearchReturned /\ []SearchReturnedRight

\* a search returned a route of two steps where another route of two steps
\* to the same goal costs more
C15_Witness ==
    /\ SearchReturned
    /\ search.returned[1] # null
    /\ Len(search.returned[1]) = 3
    /\ \E q \in DOMAIN search.grid.tiles :
          /\ IsRoute(search.grid, <<search.start, q, search.goal>>,
                     search.start, search.goal)
          /\ RouteCost(search.grid, <<search.start, q, search.goal>>)
               > RouteCost(search.grid, search.returned[1])

PlannerReturned == planner.returned

\* C11: every call of planHoses returns, for every grid and every coverage
\* radius >= 0, connectable plants or not: no plant is tried again and again,
\* and the planner never holds more hose paths than the garden has plants.
C11_PlannerTerminates ==
    <>PlannerReturned /\ [](Len(planner.hoses) <= Len(planner.plants))

\* the plants of the garden a route joins to some water source
ConnectablePlants(g) ==
    {plant \in PlantTiles(g) :
        \E source \in DOMAIN g.tiles :
            /\ g.tiles[source].type = "water_source"
            /\ source \in ReachableFrom(g, {plant})}

\* the plants some tile of the network lies within coverageRadius of
PlantsInReach(p) ==
    {plant \in PlantTiles(p.garden) :
        \E i \in 1 .. Len(p.networkList) :
            Manhattan(p.networkList[i], plant) <= p.coverageRadius}

\* C12: when planHoses returns, every plant a route through non-pillar tiles
\* joins to some water source has a network tile within coverageRadius; the
\* plants left uncovered are the ones without such a route.
C12_ConnectablePlantsCovered ==
    PlannerReturned => ConnectablePlants(planner.garden) \subseteq PlantsInReach(planner)

\* every two tiles of the garden that are no pillars have a route between them
FullyConnected(g) ==
    \A a \in DOMAIN g.tiles, b \in DOMAIN g.tiles :
        (g.tiles[a].type # "pillar" /\ g.tiles[b].type # "pillar")
            => b \in ReachableFrom(g, {a})

CoveredCountNeverDecreases ==
    [][Cardinality(planner'.coveredPlantKeys) >= Cardinality(planner.coveredPlantKeys)]_vars

\* C13 as stated: from pass to pass of the planner's loop the number of
\* covered plants never decreases, and when the planner finishes on a garden
\* whose non-pillar tiles are all mutually connected, all plants are covered.
C13_CoverageMonotoneAndFull ==
    /\ CoveredCountNeverDecreases
    /\ [](PlannerReturned /\ FullyConnected(planner.garden)
            => Cardinality(planner.coveredPlantKeys) = Len(planner.plants))

\* C13 amended: the same, for gardens that have a water source.
C13_CoverageMonotoneAndFullWithSource ==
    /\ CoveredCountNeverDecreases
    /\ [](PlannerReturned /\ FullyConnected(planner.garden)
          /\ Len(findWaterSources(planner.garden)) > 0
            => Cardinality(planner.coveredPlantKeys) = Len(planner.plants))

\* the planner finished on a fully connected garden after two passes that
\* each laid a hose, all plants covered
C13_Witness ==
    /\ PlannerReturned
    /\ FullyConnected(planner.garden)
    /\ Len(planner.hoses) >= 2
    /\ Cardinality(planner.coveredPlantKeys) = Len(planner.plants)

\* C14: no position of a hose path the planner lays is a pillar tile.
C14_NoHoseOnPillar ==
    \A i \in 1 .. Len(planner.hoses) :
        \A j \in 1 .. Len(planner.hoses[i]) :
            /\ planner.hoses[i][j] \in DOMAIN planner.garden.tiles
            /\ planner.garden.tiles[planner.hoses[i][j]].type # "pillar"

\* the planner returned a hose of four tiles, one more than two tiles of the
\* grid can be apart: the hose goes around a pillar
C14_Witness ==
    /\ PlannerReturned
    /\ \E i \in 1 .. Len(planner.hoses) : Len(planner.hoses[i]) = 4
    /\ \E q \in DOMAIN planner.garden.tiles : planner.garden.tiles[q].type = "pillar"

(* ------------------------------------------------------------------ *)
(* GeneticAlgorithmTrainer.train                                        *)
(* ------------------------------------------------------------------ *)

\* the chromosomes of the first trainer that have been evaluated
Evaluated == {id \in 1 .. Len(trainer[1].heap) :
                 trainer[1].heap[id].fitness # NegInfinity}

\* C16: in every generation the top ceil(populationSize x elitismRate)
\* individuals of the sorted population are the first of the next
\* generation, parameters and fitness unchanged, and a chromosome that has an
\* evaluated fitness keeps it and is not passed to evaluateFitness again
C16_ElitesCarriedAndEvaluatedOnce ==
    [][/\ (trainer[1].pc = "reproduce" /\ trainer'[1].pc = "evaluate") =>
              \A i \in 1 .. Min2(numElite(trainer[1].config),
                                 Len(trainer[1].population)) :
                  /\ i <= Len(trainer'[1].population)
                  /\ trainer'[1].heap[trainer'[1].population[i]]
                       = trainer[1].heap[trainer[1].population[i]]
       /\ \A id \in Evaluated :
              /\ trainer'[1].heap[id] = trainer[1].heap[id]
              /\ trainer'[1].evaluations[id] = trainer[1].evaluations[id]]_vars

\* the second generation has been evaluated: an elite of the first one is
\* in it, evaluated once, next to an offspring evaluated once
C16_Witness ==
    /\ trainer[1].pc = "select"
    /\ trainer[1].gen = 1
    /\ numElite(trainer[1].config) >= 1
    /\ trainer[1].population[1] <= trainer[1].config.populationSize
    /\ trainer[1].evaluations[trainer[1].population[1]] = 1
    /\ \E i \in 2 .. Len(trainer[1].population) :
          /\ trainer[1].population[i] > trainer[1].config.populationSize
          /\ trainer[1].evaluations[trainer[1].population[i]] = 1

\* C17: in every run of train(), the runs with a fixed seed and a zero
\* mutation rate among them, every entry of fitnessHistory is at least the
\* entry before it, and the fitness of the returned best chromosome is the
\* last entry
C17_BestFitnessNonDecreasing ==
    /\ \A i \in 2 .. Len(trainer[1].fitnessHistory) :
          trainer[1].fitnessHistory[i] >= trainer[1].fitnessHistory[i - 1]
    /\ (trainer[1].returned # <<>> /\ trainer[1].fitnessHistory # <<>>) =>
          trainer[1].returned[1].bestChromosome.fitness
            = trainer[1].fitnessHistory[Len(trainer[1].fitnessHistory)]

\* a run with a fixed seed and a zero mutation rate has returned after
\* MaxGenerations generations, each with offspring
C17_Witness ==
    /\ trainer[1].returned # <<>>
    /\ trainer[1].config.seed # undefined
    /\ trainer[1].config.mutationRate = 0
    /\ Len(trainer[1].returned[1].fitnessHistory) = MaxGenerations
    /\ Len(trainer[1].heap) > MaxPopulation
    /\ trainer[1].returned[1].bestChromosome.fitness # NegInfinity

\* C18: two trainers built from the same configuration with a fixed seed
\* and run with the same evaluation settings return the same
\* bestChromosome.params and the same fitnessHistory
C18_SameSeedSameResults ==
    (/\ trainer[1].config.seed # undefined
     /\ trainer[1].returned # <<>>
     /\ trainer[2].returned # <<>>) =>
        /\ trainer[1].returned[1].bestChromosome.params
             = trainer[2].returned[1].bestChromosome.params
        /\ trainer[1].returned[1].fitnessHistory
             = trainer[2].returned[1].fitnessHistory

\* both runs of a seeded configuration have returned after MaxGenerations
\* generations of MaxPopulation individuals, offspring mutated
C18_Witness ==
    /\ trainer[1].config.seed # undefined
    /\ trainer[1].config.populationSize = MaxPopulation
    /\ trainer[1].config.generations = MaxGenerations
    /\ trainer[1].config.mutationRate > 0
    /\ Len(trainer[1].heap) > MaxPopulation
    /\ trainer[1].returned # <<>>
    /\ trainer[2].returned # <<>>

\* C19: with populationSize >= 1 and 0 <= elitismRate <= 1 the reproduction
\* phase of every generation completes and leaves populationSize chromosomes
C19_ReproductionRefills ==
    /\ trainer[1].pc # "thrown"
    /\ Len(trainer[1].population) = trainer[1].config.populationSize

\* C20: every chromosome of TrainingResults.finalPopulation has an evaluated
\* fitness
C20_FinalPopulationEvaluated ==
    trainer[1].returned # <<>> =>
        \A i \in 1 .. Len(trainer[1].returned[1].finalPopulation) :
            trainer[1].returned[1].finalPopulation[i].fitness # NegInfinity

(* ------------------------------------------------------------------ *)
(* clampParams                                                          *)
(* ------------------------------------------------------------------ *)

\* the valid range of every gene, scales and the duty cycle in thousandths
GeneInRange(params) ==
    /\ params.drynessWeight # NaN /\ params.drynessWeight >= 0
    /\ params.floodWeight # NaN /\ params.floodWeight >= 0
    /\ params.waterWeight # NaN /\ params.waterWeight >= 0
    /\ params.predictionHorizonTicks \in 1 .. 100
    /\ params.fuzzyDrynessScale \in 0 .. Scale
    /\ params.fuzzyFloodScale \in 0 .. Scale
    /\ params.minTicksBetweenToggles # NaN /\ params.minTicksBetweenToggles >= 0
    /\ params.maxDutyCycle \in 100 .. Scale

\* C21: what clampParams returns has every gene inside its valid range, and
\* a gene that arrived missing (undefined) or as NaN has the fallback default
\* of that gene
C21_ClampedIntoRangeWithFallbacks ==
    call.result # <<>> =>
        /\ GeneInRange(call.result[1])
        /\ \A gene \in DOMAIN call.arrival :
               call.arrival[gene] \in {"missing", "NaN"} =>
                   call.result[1][gene] = clampParams(<<>>)[gene]

(* ------------------------------------------------------------------ *)
(* stepGardenMoisture                                                   *)
(* ------------------------------------------------------------------ *)

C23_DiffusionConservesMoisture ==
    call.diffused # <<>> =>
        /\ SumOver(call.diffused[1], SoilTiles(call.given))
             = SumOver(MoistureOf(call.given), SoilTiles(call.given))
        /\ \A p \in DOMAIN call.given.tiles \ SoilTiles(call.given) :
               call.diffused[1][p] = call.given.tiles[p].moisture

\* diffusion has moved moisture between the two soil tiles of the strip,
\* which have no other soil neighbour
C23_Witness ==
    /\ call.diffused # <<>>
    /\ call.given.width = 4
    /\ call.diffused[1][<<2, 0>>] # call.given.tiles[<<2, 0>>].moisture
    /\ call.diffused[1][<<3, 0>>] # call.given.tiles[<<3, 0>>].moisture

(* ------------------------------------------------------------------ *)
(* compileResults                                                       *)
(* ------------------------------------------------------------------ *)

\* C24: whenever compileResults is called, before any step, in the middle
\* of an episode, at its end or past it under the override, the final score
\* it reports is an integer from 0 to 100, and so is every score it stored
C24_FinalScoreInRange ==
    /\ Results(garden, state).finalScore \in 0 .. 100
    /\ state.results # <<>> => state.results[1].finalScore \in 0 .. 100

\* results compiled past the end of the episode, with more healthy plant
\* ticks counted than the capped total, so that the clamp decides the score
C24_Witness ==
    /\ state.tick > state.episodeLength
    /\ state.results # <<>>
    /\ state.results[1].tickCount = state.episodeLength
    /\ state.results[1].healthyPlantTicks > state.results[1].totalPlantTicks
    /\ state.results[1].finalScore = 100

\* C25: in a garden without plants every state of the episode compiles to
\* zero total plant ticks and a final score of 0, the stored results say the
\* same, and the metrics handed to the controller are zero averages and
\* percentages rather than quotients by zero
C25_NoPlantsScoreZero ==
    PlantTiles(garden) = {} =>
        /\ Results(garden, state).totalPlantTicks = 0
        /\ Results(garden, state).finalScore = 0
        /\ state.results # <<>> =>
               /\ state.results[1].totalPlantTicks = 0
               /\ state.results[1].finalScore = 0
        /\ computeGardenMetrics(state, garden).avgMoisture = 0
        /\ computeGardenMetrics(state, garden).minMoisture = 0
        /\ computeGardenMetrics(state, garden).maxMoisture = 0
        /\ computeGardenMetrics(state, garden).percentTooDry = 0
        /\ computeGardenMetrics(state, garden).percentTooWet = 0

\* the episode of a garden without plants has run to its end and the
\* finished step has stored its results
C25_Witness ==
    /\ PlantTiles(garden) = {}
    /\ state.tick = state.episodeLength
    /\ ~state.isRunning
    /\ state.results # <<>>
    /\ state.results[1].tickCount = state.episodeLength

(* ------------------------------------------------------------------ *)
(* Episodes of the fixed policies                                       *)
(* ------------------------------------------------------------------ *)

\* C26: under the always-on policy a runner that has only been stepped since
\* it was built or regenerated has counted every executed tick as a tick
\* with irrigation on and no toggle; at the end of the episode
\* irrigationOnTicks is episodeLength and irrigationToggleCount is 0, in the
\* state and in the results compiled from it
C26_AlwaysOnEpisode ==
    controller.kind = "alwaysOn" =>
        /\ state.irrigationOn
        /\ state.irrigationToggleCount = 0
        /\ state.irrigationOnTicks = state.tick
        /\ state.tick = state.episodeLength =>
               /\ Results(garden, state).irrigationOnTicks = state.episodeLength
               /\ Results(garden, state).irrigationToggleCount = 0

\* the always-on episode has ended and the finished step has stored results
\* with every tick of the episode counted as on
C26_Witness ==
    /\ controller.kind = "alwaysOn"
    /\ state.tick = state.episodeLength
    /\ ~overrideEpisodeEnd
    /\ state.results # <<>>
    /\ state.results[1].irrigationOnTicks = state.episodeLength
    /\ state.results[1].irrigationToggleCount = 0
    /\ state.results[1].totalWaterUsed > 0

\* C27: under the always-off policy a runner stepped from its fresh state
\* never counts a toggle: irrigationToggleCount is 0 in every state and the
\* irrigation flag never changes
C27_AlwaysOffNoToggle ==
    controller.kind = "alwaysOff" =>
        /\ state.irrigationToggleCount = 0
        /\ lastChange = 0 - 1

\* C28: the metric ticksSinceLastIrrigation is 0 while the irrigation flag
\* is on; while it is off, after a step that switched it off, the metric is
\* the number of ticks since the last tick executed with irrigation on, which
\* is the tick before the one whose step switched it off
C28_TicksSinceLastIrrigation ==
    /\ state.irrigationOn =>
           computeGardenMetrics(state, garden).ticksSinceLastIrrigation = 0
    /\ (~state.irrigationOn /\ lastChange >= 1) =>
           computeGardenMetrics(state, garden).ticksSinceLastIrrigation
               = state.tick - (lastChange - 1)

\* C29: in every state the three plant-tick accumulators add up to the
\* totalPlantTicks that compileResults reports, so that the health, dry and
\* flood ratios of the score add up to 1 and none exceeds 1
C29_PlantTicksAddUp ==
    /\ Results(garden, state).dryPlantTicks
         + Results(garden, state).floodedPlantTicks
         + Results(garden, state).healthyPlantTicks
           = Results(garden, state).totalPlantTicks
    /\ Results(garden, state).dryPlantTicks <= Results(garden, state).totalPlantTicks
    /\ Results(garden, state).floodedPlantTicks <= Results(garden, state).totalPlantTicks
    /\ Results(garden, state).healthyPlantTicks <= Results(garden, state).totalPlantTicks

(* ------------------------------------------------------------------ *)
(* The forecast                                                         *)
(* ------------------------------------------------------------------ *)

\* the rain intensities of the weather the next n steps apply, the first of
\* them executing tick st.tick on the weather st.weather
AppliedRain(g, st, n) == ForecastFrom(g.seed, st.weather, st.tick, n)

\* C30: once a step has left the tick counter at t, the forecast it stored
\* holds, for every k of the window, the rain intensity of the weather the
\* runner applies when it executes tick t + k
C30_ForecastIsLookahead ==
    state.tick >= 1 =>
        state.forecast = AppliedRain(garden, state, FORECAST_TICK_WINDOW)

====
